---- MODULE Spec2Model ----
(***************************************************************************)
(* A model of ccache's lookup pipeline: the manifest codec and store       *)
(* (src/src/manifest.cpp) and the per-invocation driver, its hashing of    *)
(* the arguments, its temp files, its signal handling and its dump         *)
(* options (src/src/ccache.cpp).                                           *)
(*                                                                         *)
(* The module holds several specifications over one set of variables:      *)
(*   SpecCodec   write_manifest / read_manifest on manifest values          *)
(*   SpecStore   manifest_put / manifest_get while include files change     *)
(*   SpecDamage  a manifest file that was truncated or corrupted            *)
(*   SpecRace    concurrent manifest_put calls and a concurrent reader       *)
(*   SpecCap     a manifest that grows with every build                      *)
(*   SpecRun     whole invocations of ccache, one after the other            *)
(*   SpecSignal  one invocation, step by step, and a fatal signal            *)
(*   SpecHash    the manifest key and result key of two invocations          *)
(*   SpecRel     make_relative_path on one path                              *)
(*   SpecDump    --dump-manifest and --dump-result command lines             *)
(*   SpecLock    lockfile_acquire on a lock held by another owner            *)
(*   SpecTemporal check_for_temporal_macros on the unit test's buffers     *)
(*   SpecGet     manifest_get after several manifest_put calls              *)
(*   SpecServe   invocations under changing configurations on one cache     *)
(*   SpecLimit   manifest_put on manifests at and beyond the limits          *)
(*   SpecDirect  invocations that lose direct mode                           *)
(*   SpecArgs    cc_process_args round by round; SpecArgsLive adds fairness  *)
(*   SpecSweep   the sweep of the temporary directory at startup             *)
(*   SpecPending the list of pending temporary files under a fatal signal   *)
(* Each specification leaves the variables of the others at their initial  *)
(* values.                                                                 *)
(***************************************************************************)
EXTENDS Integers, Sequences, FiniteSets, TLC

VARIABLES
    c_pc,       \* codec: "start" | "written" | "read"
    c_mf,       \* codec: the manifest value handed to write_manifest
    c_bytes,    \* codec: the bytes of the file written
    c_out,      \* codec: what read_manifest returned (NULL on failure)
    s_fs,       \* store: the include files, path -> [exists, content, mtime, ctime]
    s_now,      \* store: the clock, in seconds
    s_file,     \* store: the manifest file, [exists, bytes]
    s_get,      \* store: the manifest_get just made, [fresh, ctx, name]
    s_puts,     \* store: number of manifest_put calls so far
    s_changes,  \* store: number of file changes so far
    d_pc,       \* damage: "start" | "written" | "damaged" | "looked" | "replaced"
    d_file,     \* damage: the manifest file, [exists, bytes]
    d_get,      \* damage: what manifest_get returned on the damaged file
    d_new,      \* damage: the arguments of the manifest_put that followed
    r_dir,      \* race: the cache directory, file name -> inode (or NoInode)
    r_ino,      \* race: the inodes, inode -> bytes
    r_w,        \* race: the writers, w -> [pc, k, buf, fd]
    r_rd,       \* race: the reader, [pc, fd, bytes, raced]
    r_complete, \* race: the complete manifests renamed onto the path so far
    k_pc,       \* cap: "built" | "edited"
    k_version,  \* cap: the version of the generated header a.h
    k_file,     \* cap: the manifest file, [exists, bytes]
    k_put,      \* cap: the sizes of the manifest the last manifest_put wrote
    u_dev,      \* run: the deviations of this invocation from the plain one
    u_fs,       \* run: the source and include files, path -> [exists, content, mtime, ctime]
    u_now,      \* run: the clock, in seconds
    u_cache,    \* run: the cache, [manifest, results]
    u_before,   \* run: the cache before the last run
    u_out,      \* run: the outcomes of the runs so far
    u_edited,   \* run: was a.h rewritten after the first run?
    g_cfg,      \* signal: what the invocation will meet
    g_pc,       \* signal: where the invocation is
    g_tmp,      \* signal: the files in the temporary directory
    g_pending,  \* signal: pending_tmp_files
    g_child,    \* signal: the child process
    g_compiler_pid,\* signal: compiler_pid
    g_signum,   \* signal: the signal received, if any
    g_hpc,      \* signal: where signal_handler is
    g_log,      \* signal: the calls signal_handler has made
    h_pc,       \* hash: "start" | "varied" | "hashed"
    h_a,        \* hash: the first invocation, [compiler, args, hash_dir]
    h_b,        \* hash: the second invocation
    h_keys,     \* hash: the keys of the two invocations, once computed
    m_pc,       \* rel: "start" | "done"
    m_in,       \* rel: the call of make_relative_path, [base_dir, cwd, path, exists]
    m_out,      \* rel: what make_relative_path returned
    p_pc,       \* dump: "options" | "exited"
    p_argv,     \* dump: the dump options of the command line, each with the file it names
    p_i,        \* dump: the option getopt_long returns next
    p_out,      \* dump: what each option handled so far did
    p_status,   \* dump: the exit status
    l_pc,       \* lock: "running" | "done"
    l_limit,    \* lock: staleness_limit, in microseconds
    l_links,    \* lock: what the symlinks test.lock, test.lock.lock, ... point to
    l_stack,    \* lock: the calls of lockfile_acquire in progress, [slept, to_sleep, initial_content]
    l_result,   \* lock: what the outermost lockfile_acquire returned
    l_owner,    \* lock: the other owner, [held, progress]
    t_pc,       \* temporal: scan or returned
    t_in,       \* temporal: the buffer and what the test expects
    t_i,        \* temporal: the position of the scan
    t_flags,    \* temporal: the flags found so far
    q_fs,       \* get: the include files
    q_now,      \* get: the clock, in seconds
    q_file,     \* get: the manifest file, [exists, bytes]
    q_mtime,    \* get: the mtime of the manifest file
    q_ret,      \* get: the manifest_get just made, [fresh, ctx, name]
    q_ops,      \* get: number of manifest_put calls and file changes so far
    v_fs,       \* serve: the source and include files
    v_cache,    \* serve: the cache, [manifests, results]
    v_out,      \* serve: the last invocation, [dev, before, out]
    v_n,        \* serve: number of invocations so far
    w_mf,       \* limit: the manifest file, as read_manifest returns it
    w_put,      \* limit: the last manifest_put, [read, name, included, written]
    w_n,        \* limit: number of manifest_put calls so far
    y_fs,       \* direct: the source and its include file
    y_cache,    \* direct: the cache
    y_out,      \* direct: the last invocation, [dev, before, out]
    y_n,        \* direct: number of invocations so far
    a_argv,     \* args: expanded_args->argv
    a_i,        \* args: the loop's i
    a_p,        \* args: the locals and globals of cc_process_args
    a_pc,       \* args: loop, done or crashed
    a_out,      \* args: what cc_process_args returned
    e_now,      \* sweep: the clock, in seconds
    e_dir,      \* sweep: the mtime of the cache directory
    e_tmp,      \* sweep: the files of tmp/ with their mtimes
    e_inv,      \* sweep: the invocations
    e_log,      \* sweep: the files removed and the sweeps made
    n_main,     \* pending: the invocation: its position, the files registered, the signal mask
    n_list,     \* pending: pending_tmp_files and the nodes allocated
    n_files,    \* pending: the temporary files there are
    n_sig       \* pending: the fatal signal and its handler

codecVars == <<c_pc, c_mf, c_bytes, c_out>>
storeVars == <<s_fs, s_now, s_file, s_get, s_puts, s_changes>>

damageVars == <<d_pc, d_file, d_get, d_new>>

raceVars == <<r_dir, r_ino, r_w, r_rd, r_complete>>

capVars == <<k_pc, k_version, k_file, k_put>>

runVars == <<u_dev, u_fs, u_now, u_cache, u_before, u_out, u_edited>>

signalVars == <<g_cfg, g_pc, g_tmp, g_pending, g_child, g_compiler_pid, g_signum, g_hpc, g_log>>

hashVars == <<h_pc, h_a, h_b, h_keys>>

relVars == <<m_pc, m_in, m_out>>

dumpVars == <<p_pc, p_argv, p_i, p_out, p_status>>

lockVars == <<l_pc, l_limit, l_links, l_stack, l_result, l_owner>>

temporalVars == <<t_pc, t_in, t_i, t_flags>>

getVars == <<q_fs, q_now, q_file, q_mtime, q_ret, q_ops>>

serveVars == <<v_fs, v_cache, v_out, v_n>>

limitVars == <<w_mf, w_put, w_n>>

directVars == <<y_fs, y_cache, y_out, y_n>>

argsVars == <<a_argv, a_i, a_p, a_pc, a_out>>

sweepVars == <<e_now, e_dir, e_tmp, e_inv, e_log>>

pendingVars == <<n_main, n_list, n_files, n_sig>>

vars == <<codecVars, storeVars, damageVars, raceVars, capVars, runVars, signalVars, hashVars, relVars, dumpVars, lockVars, temporalVars, getVars, serveVars, limitVars, directVars, argsVars, sweepVars, pendingVars>>

\* The NULL a failed read_manifest returns (a record, so that it compares
\* with manifests).
NULL == [null |-> TRUE]

(***************************************************************************)
(* Bytes and fixed-width big-endian integers.                              *)
(***************************************************************************)

\* DIGEST_SIZE, the number of bytes of a struct digest.
DIGEST_SIZE == 20

\* Size of the common header: magic 4, version 1, compr_type 1,
\* compr_level 1, content_len 8.
COMMON_HEADER_SIZE == 15

MANIFEST_MAGIC == <<99, 67, 109, 70>>   \* 'c' 'C' 'm' 'F'

MANIFEST_VERSION == 2

COMPR_TYPE_NONE == 0

\* Byte k (0 = least significant) of the two's complement form of v.  TLC's
\* integers are 32 bits wide, so the bytes above the third are the sign
\* extension; with \div rounding down this is exact for |v| < 2^23.
ByteOf(v, k) ==
    IF k >= 3 THEN (IF v < 0 THEN 255 ELSE 0)
    ELSE (v \div (IF k = 0 THEN 1 ELSE IF k = 1 THEN 256 ELSE 65536)) % 256

BYTES_FROM_UINT16(v) == <<ByteOf(v % 65536, 1), ByteOf(v % 65536, 0)>>

BYTES_FROM_UINT32(v) == [i \in 1..4 |-> ByteOf(v, 4 - i)]

BYTES_FROM_UINT64(v) == [i \in 1..8 |-> ByteOf(v, 8 - i)]

BYTES_FROM_INT64(v) == [i \in 1..8 |-> ByteOf(v, 8 - i)]

UINT16_FROM_BYTES(b) == b[1] * 256 + b[2]

\* The value of four bytes.  A first byte of 128 or more is outside TLC's
\* integers; such a count is larger than any file of the model, and is read
\* as the largest value the model can hold.
UINT32_FROM_BYTES(b) ==
    IF b[1] >= 128 THEN 2147483647
    ELSE ((b[1] * 256 + b[2]) * 256 + b[3]) * 256 + b[4]

\* The value of eight bytes, when it is one the model's integers hold
\* (|v| < 2^23); any other bit pattern is kept as the bytes themselves.
UINT64_FROM_BYTES(b) ==
    IF \A i \in 1..5 : b[i] = 0
    THEN (b[6] * 256 + b[7]) * 256 + b[8]
    ELSE b

INT64_FROM_BYTES(b) ==
    IF (\A i \in 1..5 : b[i] = 0) /\ b[6] < 128
    THEN (b[6] * 256 + b[7]) * 256 + b[8]
    ELSE IF (\A i \in 1..5 : b[i] = 255) /\ b[6] >= 128
    THEN ((b[6] * 256 + b[7]) * 256 + b[8]) - 16777216
    ELSE b

\* The checksum primitive: a 64-bit value computed from every byte and its
\* position.  (Summed by halves, so that long files need no deep recursion.)
RECURSIVE XXH64_range(_, _, _)
XXH64_range(b, lo, hi) ==
    IF lo > hi THEN 0
    ELSE IF lo = hi THEN ((b[lo] + 1) * ((lo % 250) + 1)) % 65521
    ELSE LET mid == (lo + hi) \div 2
         IN  (XXH64_range(b, lo, mid) + XXH64_range(b, mid + 1, hi)) % 65521

XXH64(b) == XXH64_range(b, 1, Len(b))

RECURSIVE Flatten(_)
Flatten(ss) == IF ss = <<>> THEN <<>> ELSE Head(ss) \o Flatten(Tail(ss))

(***************************************************************************)
(* The manifest (struct manifest) and its codec.                           *)
(***************************************************************************)

create_empty_manifest == [files |-> <<>>, file_infos |-> <<>>, results |-> <<>>]

bytes_of_file(p) == BYTES_FROM_UINT16(Len(p)) \o SubSeq(p, 1, Len(p) % 65536)

\* A writer that stores ctime before mtime.
bytes_of_file_info_swapped(fi) ==
    BYTES_FROM_UINT32(fi.index) \o fi.digest \o BYTES_FROM_UINT64(fi.fsize)
        \o BYTES_FROM_INT64(fi.ctime) \o BYTES_FROM_INT64(fi.mtime)

\* The fields write_manifest writes for one file info.
bytes_of_file_info(fi) ==
    BYTES_FROM_UINT32(fi.index) \o fi.digest \o BYTES_FROM_UINT64(fi.fsize)
        \o BYTES_FROM_INT64(fi.mtime) \o BYTES_FROM_INT64(fi.ctime)

bytes_of_result(r) ==
    BYTES_FROM_UINT32(Len(r.file_info_indexes))
        \o Flatten([j \in 1..Len(r.file_info_indexes) |->
                        BYTES_FROM_UINT32(r.file_info_indexes[j])])
        \o r.name

\* The body write_manifest sends through the compressor, checksum excluded.
manifest_body(mf) ==
    BYTES_FROM_UINT32(Len(mf.files))
        \o Flatten([i \in 1..Len(mf.files) |-> bytes_of_file(mf.files[i])])
        \o BYTES_FROM_UINT32(Len(mf.file_infos))
        \o Flatten([i \in 1..Len(mf.file_infos) |->
                        bytes_of_file_info(mf.file_infos[i])])
        \o BYTES_FROM_UINT32(Len(mf.results))
        \o Flatten([i \in 1..Len(mf.results) |-> bytes_of_result(mf.results[i])])

\* content_size as write_manifest adds it up.
manifest_content_size(mf) ==
    LET RECURSIVE PathBytes(_)
        PathBytes(i) == IF i > Len(mf.files) THEN 0
                        ELSE 2 + (Len(mf.files[i]) % 65536) + PathBytes(i + 1)
        RECURSIVE ResultBytes(_)
        ResultBytes(i) == IF i > Len(mf.results) THEN 0
                          ELSE 4 + Len(mf.results[i].file_info_indexes) * 4
                                 + DIGEST_SIZE + ResultBytes(i + 1)
    IN  COMMON_HEADER_SIZE + 4 + PathBytes(1)
            + 4 + Len(mf.file_infos) * (4 + DIGEST_SIZE + 8 + 8 + 8)
            + 4 + ResultBytes(1) + 8

\* The header common_header_initialize_for_writing puts in front of the body.
common_header_bytes(content_size) ==
    MANIFEST_MAGIC \o <<MANIFEST_VERSION, COMPR_TYPE_NONE, 0>>
        \o BYTES_FROM_UINT64(content_size)

write_manifest(mf) ==
    LET body == manifest_body(mf)
    IN  common_header_bytes(manifest_content_size(mf)) \o body
            \o BYTES_FROM_UINT64(XXH64(body))

\* READ_BYTES: are n more bytes there at position pos (1-based)?
CanRead(b, pos, n) == pos + n - 1 <= Len(b)

ReadFail == [ok |-> FALSE, pos |-> 0, val |-> <<>>]

\* READ_STR for each of the n paths of the path table.
RECURSIVE read_files(_, _, _, _)
read_files(b, pos, n, acc) ==
    IF n = 0 THEN [ok |-> TRUE, pos |-> pos, val |-> acc]
    ELSE IF ~CanRead(b, pos, 2) THEN ReadFail
    ELSE LET len == UINT16_FROM_BYTES(SubSeq(b, pos, pos + 1))
         IN  IF ~CanRead(b, pos + 2, len) THEN ReadFail
             ELSE read_files(b, pos + 2 + len, n - 1,
                             Append(acc, SubSeq(b, pos + 2, pos + 1 + len)))

\* The n FileInfo entries, each of 4 + DIGEST_SIZE + 8 + 8 + 8 bytes.
file_info_at(b, pos) ==
    LET d == pos + 4
        s == d + DIGEST_SIZE
    IN  [index  |-> UINT32_FROM_BYTES(SubSeq(b, pos, pos + 3)),
         digest |-> SubSeq(b, d, d + DIGEST_SIZE - 1),
         fsize  |-> UINT64_FROM_BYTES(SubSeq(b, s, s + 7)),
         mtime  |-> INT64_FROM_BYTES(SubSeq(b, s + 8, s + 15)),
         ctime  |-> INT64_FROM_BYTES(SubSeq(b, s + 16, s + 23))]

read_file_infos(b, pos, n) ==
    LET size == 4 + DIGEST_SIZE + 8 + 8 + 8
    IN  IF n > Len(b) \/ ~CanRead(b, pos, n * size) THEN ReadFail
        ELSE [ok |-> TRUE, pos |-> pos + n * size,
              val |-> [i \in 1..n |-> file_info_at(b, pos + (i - 1) * size)]]

\* The n file info indexes of one result entry, 4 bytes each.
read_indexes(b, pos, n) ==
    IF n > Len(b) \/ ~CanRead(b, pos, n * 4) THEN ReadFail
    ELSE [ok |-> TRUE, pos |-> pos + n * 4,
          val |-> [i \in 1..n |->
                      UINT32_FROM_BYTES(SubSeq(b, pos + (i - 1) * 4,
                                               pos + (i - 1) * 4 + 3))]]

RECURSIVE read_results(_, _, _, _)
read_results(b, pos, n, acc) ==
    IF n = 0 THEN [ok |-> TRUE, pos |-> pos, val |-> acc]
    ELSE IF ~CanRead(b, pos, 4) THEN ReadFail
    ELSE LET ix == read_indexes(b, pos + 4,
                                UINT32_FROM_BYTES(SubSeq(b, pos, pos + 3)))
         IN  IF ~ix.ok \/ ~CanRead(b, ix.pos, DIGEST_SIZE) THEN ReadFail
             ELSE read_results(b, ix.pos + DIGEST_SIZE, n - 1,
                      Append(acc, [file_info_indexes |-> ix.val,
                                   name |-> SubSeq(b, ix.pos,
                                                   ix.pos + DIGEST_SIZE - 1)]))

\* common_header_initialize_for_reading: the header is complete, carries the
\* manifest magic and version and names a known compression type.
common_header_ok(b) ==
    /\ CanRead(b, 1, COMMON_HEADER_SIZE)
    /\ SubSeq(b, 1, 4) = MANIFEST_MAGIC
    /\ b[5] = MANIFEST_VERSION
    /\ b[6] = COMPR_TYPE_NONE

\* A reader that leaves the first byte of the checksum out of the comparison.
checksum_matches_but_first(b, from, to) ==
    SubSeq(BYTES_FROM_UINT64(XXH64(SubSeq(b, from, to - 1))), 2, 8)
        = SubSeq(b, to + 1, to + 7)

\* actual_checksum == expected_checksum: the XXH64 of the body bytes
\* b[from..to-1] against the eight bytes read at `to`.
checksum_matches(b, from, to) ==
    BYTES_FROM_UINT64(XXH64(SubSeq(b, from, to - 1))) = SubSeq(b, to, to + 7)

\* read_manifest on the bytes of an opened file: the manifest, or NULL when
\* the header is bad, a read runs past the end or the checksum differs.
read_manifest(b) ==
    IF ~common_header_ok(b) THEN NULL
    ELSE LET p0 == COMMON_HEADER_SIZE + 1 IN
    IF ~CanRead(b, p0, 4) THEN NULL
    ELSE LET fs == read_files(b, p0 + 4,
                              UINT32_FROM_BYTES(SubSeq(b, p0, p0 + 3)), <<>>) IN
    IF ~fs.ok \/ ~CanRead(b, fs.pos, 4) THEN NULL
    ELSE LET fis == read_file_infos(b, fs.pos + 4,
                        UINT32_FROM_BYTES(SubSeq(b, fs.pos, fs.pos + 3))) IN
    IF ~fis.ok \/ ~CanRead(b, fis.pos, 4) THEN NULL
    ELSE LET rs == read_results(b, fis.pos + 4,
                        UINT32_FROM_BYTES(SubSeq(b, fis.pos, fis.pos + 3)), <<>>) IN
    IF ~rs.ok \/ ~CanRead(b, rs.pos, 8) THEN NULL
    ELSE IF checksum_matches(b, p0, rs.pos)
             THEN [files |-> fs.val, file_infos |-> fis.val, results |-> rs.val]
             ELSE NULL

(***************************************************************************)
(* The file system as the manifest store sees it, and the source hasher.   *)
(* A file is [exists, content, mtime, ctime]; content is a number standing *)
(* for the bytes of the file.                                              *)
(***************************************************************************)

\* The digest returned for absent results (a NULL struct digest pointer).
NO_DIGEST == <<>>

\* A digest: DIGEST_SIZE bytes, told apart by the number n.
Digest(n) == [i \in 1..DIGEST_SIZE |-> IF i = 1 THEN n % 256 ELSE (i * 13) % 256]

\* st_size of a file with the given content: contents 1 and 2 have the same
\* size, so that a size check alone cannot tell them apart.
SizeOf(content) == 10 + content \div 3

\* Does the content hold __TIME__ as a token?
HasTimeMacro(content) == content % 5 = 4

NoSuchFile == [exists |-> FALSE, content |-> 0, mtime |-> 0, ctime |-> 0]

Max(a, b) == IF a >= b THEN a ELSE b

\* x_stat: a path the file system does not know is a file that does not exist.
x_stat(fs, path) == IF path \in DOMAIN fs THEN fs[path] ELSE NoSuchFile

\* The path of a file info; an index beyond the path table (which only a
\* file that passed the checksum with a changed byte could hold) names no file.
file_info_path(mf, fi) ==
    IF fi.index < Len(mf.files) THEN mf.files[fi.index + 1] ELSE <<>>

\* hash_source_code_file: the digest of the file's content and the flags
\* HASH_SOURCE_CODE_ERROR (the file cannot be read) and
\* HASH_SOURCE_CODE_FOUND_TIME (a time macro, unless time_macros is sloppy).
hash_source_code_file(sloppiness, fs, path) ==
    IF ~x_stat(fs, path).exists
    THEN [error |-> TRUE, found_time |-> FALSE, digest |-> NO_DIGEST]
    ELSE [error |-> FALSE,
          found_time |-> HasTimeMacro(fs[path].content)
                            /\ "time_macros" \notin sloppiness,
          digest |-> Digest(fs[path].content)]

(***************************************************************************)
(* manifest_get: verify_result on each result entry, newest first.         *)
(* ctx is [sloppiness, guessed_compiler, output_is_precompiled_header].    *)
(* The per-call stat and hash caches are not modelled: the call is one     *)
(* step, during which no file changes.                                     *)
(***************************************************************************)

\* A verification that trusts the timestamps without comparing the size.
file_info_matches_unsized(ctx, mf, fi, fs) ==
    LET path == file_info_path(mf, fi)
        st == x_stat(fs, path)
        h == hash_source_code_file(ctx.sloppiness, fs, path)
    IN  /\ st.exists
        /\ \/ /\ "file_stat_matches" \in ctx.sloppiness
              /\ IF "file_stat_matches_ctime" \notin ctx.sloppiness
                 THEN fi.mtime = st.mtime /\ fi.ctime = st.ctime
                 ELSE fi.mtime = st.mtime
           \/ /\ ~h.error
              /\ ~h.found_time
              /\ fi.digest = h.digest

\* One pass of verify_result's loop body: does file info fi still match?
file_info_matches(ctx, mf, fi, fs) ==
    LET path == file_info_path(mf, fi)
        st == x_stat(fs, path)
        h == hash_source_code_file(ctx.sloppiness, fs, path)
    IN  /\ st.exists
        /\ fi.fsize = SizeOf(st.content)
        /\ ~ ( /\ ctx.guessed_compiler \in {"clang", "unknown"}
               /\ ctx.output_is_precompiled_header
               /\ fi.mtime # st.mtime )
        /\ \/ /\ "file_stat_matches" \in ctx.sloppiness
              /\ IF "file_stat_matches_ctime" \notin ctx.sloppiness
                 THEN fi.mtime = st.mtime /\ fi.ctime = st.ctime
                 ELSE fi.mtime = st.mtime
           \/ /\ ~h.error
              /\ ~h.found_time
              /\ fi.digest = h.digest

verify_result(ctx, mf, result, fs) ==
    \A i \in 1..Len(result.file_info_indexes) :
        file_info_matches(ctx, mf,
                          mf.file_infos[result.file_info_indexes[i] + 1], fs)

\* A loop that runs from the first entry up to the last.
manifest_get_index_oldest_first(ctx, mf, fs) ==
    LET ok == {i \in 1..Len(mf.results) : verify_result(ctx, mf, mf.results[i], fs)}
    IN  IF ok = {} THEN 0 ELSE CHOOSE i \in ok : \A j \in ok : j >= i

\* The index (1-based) of the entry manifest_get returns, 0 when none
\* verifies: the loop runs from the last entry down to the first.
manifest_get_index(ctx, mf, fs) ==
    LET ok == {i \in 1..Len(mf.results) : verify_result(ctx, mf, mf.results[i], fs)}
    IN  IF ok = {} THEN 0 ELSE CHOOSE i \in ok : \A j \in ok : j <= i

\* manifest_get on a file [exists, bytes]: the result name, or NO_DIGEST.
manifest_get_name(mf, i) == IF i = 0 THEN NO_DIGEST ELSE mf.results[i].name

\* manifest_get once read_manifest has returned mf.
manifest_get_read(ctx, mf, fs) ==
    IF mf = NULL THEN NO_DIGEST
    ELSE manifest_get_name(mf, manifest_get_index(ctx, mf, fs))

manifest_get(ctx, file, fs) ==
    IF ~file.exists THEN NO_DIGEST
    ELSE manifest_get_read(ctx, read_manifest(file.bytes), fs)

(***************************************************************************)
(* manifest_put: read, discard when over the limits, add one result entry. *)
(***************************************************************************)

MAX_MANIFEST_ENTRIES == 100
MAX_MANIFEST_FILE_INFO_ENTRIES == 10000

\* create_file_index_map: path -> index of its first occurrence (emplace
\* keeps the first), as a set of pairs.
create_file_index_map(files) ==
    { <<files[i], i - 1>> : i \in {k \in 1..Len(files) :
                                      \A j \in 1..(k - 1) : files[j] # files[k]} }

create_file_info_index_map(infos) ==
    { <<infos[i], i - 1>> : i \in {k \in 1..Len(infos) :
                                      \A j \in 1..(k - 1) : infos[j] # infos[k]} }

MapHas(map, key) == \E e \in map : e[1] = key
MapAt(map, key) == (CHOOSE e \in map : e[1] = key)[2]

\* get_include_file_index: [mf, index]; appends the path when the map built
\* before the loop does not know it.
get_include_file_index(mf, path, mf_files) ==
    IF MapHas(mf_files, path) THEN [mf |-> mf, index |-> MapAt(mf_files, path)]
    ELSE [mf |-> [mf EXCEPT !.files = Append(@, path)], index |-> Len(mf.files)]

\* A FileInfo that takes the times of a file written in the second of the
\* compilation too.
new_file_info_of_this_second(index, digest, st, time_of_compilation) ==
    IF st.exists
    THEN IF time_of_compilation >= Max(st.mtime, st.ctime)
         THEN [index |-> index, digest |-> digest, fsize |-> SizeOf(st.content),
               mtime |-> st.mtime, ctime |-> st.ctime]
         ELSE [index |-> index, digest |-> digest, fsize |-> SizeOf(st.content),
               mtime |-> -1, ctime |-> -1]
    ELSE [index |-> index, digest |-> digest, fsize |-> 0,
          mtime |-> -1, ctime |-> -1]

\* The FileInfo get_file_info_index builds for the path: mtime and ctime only
\* when both are older than time_of_compilation, else -1; no stat, size 0.
new_file_info(index, digest, st, time_of_compilation) ==
    IF st.exists
    THEN IF time_of_compilation > Max(st.mtime, st.ctime)
         THEN [index |-> index, digest |-> digest, fsize |-> SizeOf(st.content),
               mtime |-> st.mtime, ctime |-> st.ctime]
         ELSE [index |-> index, digest |-> digest, fsize |-> SizeOf(st.content),
               mtime |-> -1, ctime |-> -1]
    ELSE [index |-> index, digest |-> digest, fsize |-> 0,
          mtime |-> -1, ctime |-> -1]

\* A get_file_info_index that never looks the file info up.
get_file_info_index_appending(mf, path, digest, mf_files, mf_file_infos, fs, toc) ==
    LET r == get_include_file_index(mf, path, mf_files)
        fi == new_file_info(r.index, digest, fs[path], toc)
    IN  [mf |-> [r.mf EXCEPT !.file_infos = Append(@, fi)],
         index |-> Len(r.mf.file_infos)]

get_file_info_index(mf, path, digest, mf_files, mf_file_infos, fs, toc) ==
    LET r == get_include_file_index(mf, path, mf_files)
        fi == new_file_info(r.index, digest, fs[path], toc)
    IN  IF MapHas(mf_file_infos, fi)
        THEN [mf |-> r.mf, index |-> MapAt(mf_file_infos, fi)]
        ELSE [mf |-> [r.mf EXCEPT !.file_infos = Append(@, fi)],
              index |-> Len(r.mf.file_infos)]

\* add_file_info_indexes: the loop over included_files, visited in `order`
\* (an unordered_map has no specified iteration order).
RECURSIVE add_file_info_indexes(_, _, _, _, _, _, _, _)
add_file_info_indexes(mf, indexes, included_files, order, mf_files, mf_file_infos, fs, toc) ==
    IF order = <<>> THEN [mf |-> mf, indexes |-> indexes]
    ELSE LET r == get_file_info_index(mf, Head(order), included_files[Head(order)],
                                      mf_files, mf_file_infos, fs, toc)
         IN  add_file_info_indexes(r.mf, Append(indexes, r.index), included_files,
                                   Tail(order), mf_files, mf_file_infos, fs, toc)

add_result_entry(mf, result_digest, included_files, order, fs, toc) ==
    LET r == add_file_info_indexes(mf, <<>>, included_files, order,
                                   create_file_index_map(mf.files),
                                   create_file_info_index_map(mf.file_infos),
                                   fs, toc)
    IN  [r.mf EXCEPT !.results =
            Append(@, [file_info_indexes |-> r.indexes, name |-> result_digest])]

\* A manifest_put that starts over when a limit is reached, not when it is
\* exceeded.
manifest_put_read_at_limit(mf) ==
    IF mf = NULL THEN create_empty_manifest
    ELSE IF Len(mf.results) >= MAX_MANIFEST_ENTRIES THEN create_empty_manifest
    ELSE IF Len(mf.file_infos) >= MAX_MANIFEST_FILE_INFO_ENTRIES
    THEN create_empty_manifest
    ELSE mf

\* The manifest manifest_put starts from: the one read, or an empty one when
\* the file is missing or corrupt or holds too many entries.
manifest_put_read(mf) ==
    IF mf = NULL THEN create_empty_manifest
    ELSE IF Len(mf.results) > MAX_MANIFEST_ENTRIES THEN create_empty_manifest
    ELSE IF Len(mf.file_infos) > MAX_MANIFEST_FILE_INFO_ENTRIES
    THEN create_empty_manifest
    ELSE mf

manifest_put_base(file) ==
    manifest_put_read(IF file.exists THEN read_manifest(file.bytes) ELSE NULL)

\* A manifest_put that writes back what it read.
manifest_put_without_entry(file, result_name, included_files, order, fs, toc) ==
    manifest_put_base(file)

\* The manifest manifest_put writes to its temp file.
manifest_put_manifest(file, result_name, included_files, order, fs, toc) ==
    add_result_entry(manifest_put_base(file), result_name, included_files,
                     order, fs, toc)

\* All orders in which the paths of an include set can be visited.
Orders(S) == {o \in [1..Cardinality(S) -> S] : \A i, j \in DOMAIN o :
                                                    i # j => o[i] # o[j]}

(***************************************************************************)
(* The include files and the manifest file of the store specifications.    *)
(***************************************************************************)

PathA == <<97, 46, 104>>    \* "a.h"
PathB == <<98, 46, 104>>    \* "b.h"
Paths == {PathA, PathB}

NoManifestFile == [exists |-> FALSE, bytes |-> <<>>]


NoGet == [fresh |-> FALSE, ctx |-> <<>>, name |-> NO_DIGEST]

\* The result name of a compilation: a digest of what the preprocessor saw.
ResultKey(fs) == Digest(100 + fs[PathA].content * 16 + fs[PathB].content)

\* The include files: both exist and were last changed at second 0.
QuietFs ==
    [p \in Paths |-> [exists |-> TRUE, content |-> 1, mtime |-> 0, ctime |-> 0]]

\* time_of_compilation of every invocation: after the files' last change.
QuietToc == QuietFs[PathA].ctime + 1

(***************************************************************************)
(* The sections of the state.  A specification moves the variables of its  *)
(* own section; the others stay at the idle values below.                  *)
(***************************************************************************)

CodecIdle ==
    /\ c_pc = "idle"
    /\ c_mf = create_empty_manifest
    /\ c_bytes = <<>>
    /\ c_out = NULL

StoreIdle ==
    /\ s_fs = [p \in Paths |-> NoSuchFile]
    /\ s_now = 0
    /\ s_file = NoManifestFile
    /\ s_get = NoGet
    /\ s_puts = 0
    /\ s_changes = 0

DamageIdle ==
    /\ d_pc = "idle"
    /\ d_file = NoManifestFile
    /\ d_get = NO_DIGEST
    /\ d_new = <<>>

RaceIdle ==
    /\ r_dir = <<>>
    /\ r_ino = <<>>
    /\ r_w = <<>>
    /\ r_rd = <<>>
    /\ r_complete = {}

CapIdle ==
    /\ k_pc = "idle"
    /\ k_version = 0
    /\ k_file = NoManifestFile
    /\ k_put = <<>>

RunIdle ==
    /\ u_dev = <<>>
    /\ u_fs = <<>>
    /\ u_now = <<>>
    /\ u_cache = <<>>
    /\ u_before = <<>>
    /\ u_out = <<>>
    /\ u_edited = <<>>

SignalIdle ==
    /\ g_cfg = <<>>
    /\ g_pc = <<>>
    /\ g_tmp = <<>>
    /\ g_pending = <<>>
    /\ g_child = <<>>
    /\ g_compiler_pid = <<>>
    /\ g_signum = <<>>
    /\ g_hpc = <<>>
    /\ g_log = <<>>

HashIdle ==
    /\ h_pc = <<>>
    /\ h_a = <<>>
    /\ h_b = <<>>
    /\ h_keys = <<>>

RelIdle ==
    /\ m_pc = <<>>
    /\ m_in = <<>>
    /\ m_out = <<>>

DumpIdle ==
    /\ p_pc = <<>>
    /\ p_argv = <<>>
    /\ p_i = <<>>
    /\ p_out = <<>>
    /\ p_status = <<>>

LockIdle ==
    /\ l_pc = <<>>
    /\ l_limit = <<>>
    /\ l_links = <<>>
    /\ l_stack = <<>>
    /\ l_result = <<>>
    /\ l_owner = <<>>

TemporalIdle ==
    /\ t_pc = <<>>
    /\ t_in = <<>>
    /\ t_i = <<>>
    /\ t_flags = <<>>

GetIdle ==
    /\ q_fs = <<>>
    /\ q_now = <<>>
    /\ q_file = <<>>
    /\ q_mtime = <<>>
    /\ q_ret = <<>>
    /\ q_ops = <<>>

ServeIdle ==
    /\ v_fs = <<>>
    /\ v_cache = <<>>
    /\ v_out = <<>>
    /\ v_n = <<>>

LimitIdle ==
    /\ w_mf = <<>>
    /\ w_put = <<>>
    /\ w_n = <<>>

DirectIdle ==
    /\ y_fs = <<>>
    /\ y_cache = <<>>
    /\ y_out = <<>>
    /\ y_n = <<>>

ArgsIdle ==
    /\ a_argv = <<>>
    /\ a_i = <<>>
    /\ a_p = <<>>
    /\ a_pc = <<>>
    /\ a_out = <<>>

SweepIdle ==
    /\ e_now = <<>>
    /\ e_dir = <<>>
    /\ e_tmp = <<>>
    /\ e_inv = <<>>
    /\ e_log = <<>>

PendingIdle ==
    /\ n_main = <<>>
    /\ n_list = <<>>
    /\ n_files = <<>>
    /\ n_sig = <<>>

codecRest == <<storeVars, damageVars, raceVars, capVars, runVars, signalVars, hashVars, relVars, dumpVars, lockVars, temporalVars, getVars, serveVars, limitVars, directVars, argsVars, sweepVars, pendingVars>>
storeRest == <<codecVars, damageVars, raceVars, capVars, runVars, signalVars, hashVars, relVars, dumpVars, lockVars, temporalVars, getVars, serveVars, limitVars, directVars, argsVars, sweepVars, pendingVars>>
damageRest == <<codecVars, storeVars, raceVars, capVars, runVars, signalVars, hashVars, relVars, dumpVars, lockVars, temporalVars, getVars, serveVars, limitVars, directVars, argsVars, sweepVars, pendingVars>>
raceRest == <<codecVars, storeVars, damageVars, capVars, runVars, signalVars, hashVars, relVars, dumpVars, lockVars, temporalVars, getVars, serveVars, limitVars, directVars, argsVars, sweepVars, pendingVars>>
capRest == <<codecVars, storeVars, damageVars, raceVars, runVars, signalVars, hashVars, relVars, dumpVars, lockVars, temporalVars, getVars, serveVars, limitVars, directVars, argsVars, sweepVars, pendingVars>>
runRest == <<codecVars, storeVars, damageVars, raceVars, capVars, signalVars, hashVars, relVars, dumpVars, lockVars, temporalVars, getVars, serveVars, limitVars, directVars, argsVars, sweepVars, pendingVars>>
signalRest == <<codecVars, storeVars, damageVars, raceVars, capVars, runVars, hashVars, relVars, dumpVars, lockVars, temporalVars, getVars, serveVars, limitVars, directVars, argsVars, sweepVars, pendingVars>>
hashRest == <<codecVars, storeVars, damageVars, raceVars, capVars, runVars, signalVars, relVars, dumpVars, lockVars, temporalVars, getVars, serveVars, limitVars, directVars, argsVars, sweepVars, pendingVars>>
relRest == <<codecVars, storeVars, damageVars, raceVars, capVars, runVars, signalVars, hashVars, dumpVars, lockVars, temporalVars, getVars, serveVars, limitVars, directVars, argsVars, sweepVars, pendingVars>>
dumpRest == <<codecVars, storeVars, damageVars, raceVars, capVars, runVars, signalVars, hashVars, relVars, lockVars, temporalVars, getVars, serveVars, limitVars, directVars, argsVars, sweepVars, pendingVars>>
lockRest == <<codecVars, storeVars, damageVars, raceVars, capVars, runVars, signalVars, hashVars, relVars, dumpVars, temporalVars, getVars, serveVars, limitVars, directVars, argsVars, sweepVars, pendingVars>>
temporalRest == <<codecVars, storeVars, damageVars, raceVars, capVars, runVars, signalVars, hashVars, relVars, dumpVars, lockVars, getVars, serveVars, limitVars, directVars, argsVars, sweepVars, pendingVars>>
getRest == <<codecVars, storeVars, damageVars, raceVars, capVars, runVars, signalVars, hashVars, relVars, dumpVars, lockVars, temporalVars, serveVars, limitVars, directVars, argsVars, sweepVars, pendingVars>>
serveRest == <<codecVars, storeVars, damageVars, raceVars, capVars, runVars, signalVars, hashVars, relVars, dumpVars, lockVars, temporalVars, getVars, limitVars, directVars, argsVars, sweepVars, pendingVars>>
limitRest == <<codecVars, storeVars, damageVars, raceVars, capVars, runVars, signalVars, hashVars, relVars, dumpVars, lockVars, temporalVars, getVars, serveVars, directVars, argsVars, sweepVars, pendingVars>>
directRest == <<codecVars, storeVars, damageVars, raceVars, capVars, runVars, signalVars, hashVars, relVars, dumpVars, lockVars, temporalVars, getVars, serveVars, limitVars, argsVars, sweepVars, pendingVars>>
argsRest == <<codecVars, storeVars, damageVars, raceVars, capVars, runVars, signalVars, hashVars, relVars, dumpVars, lockVars, temporalVars, getVars, serveVars, limitVars, directVars, sweepVars, pendingVars>>
sweepRest == <<codecVars, storeVars, damageVars, raceVars, capVars, runVars, signalVars, hashVars, relVars, dumpVars, lockVars, temporalVars, getVars, serveVars, limitVars, directVars, argsVars, pendingVars>>
pendingRest == <<codecVars, storeVars, damageVars, raceVars, capVars, runVars, signalVars, hashVars, relVars, dumpVars, lockVars, temporalVars, getVars, serveVars, limitVars, directVars, argsVars, sweepVars>>

CodecRestIdle == StoreIdle /\ DamageIdle /\ RaceIdle /\ CapIdle /\ RunIdle /\ SignalIdle /\ HashIdle /\ RelIdle /\ DumpIdle /\ LockIdle /\ TemporalIdle /\ GetIdle /\ ServeIdle /\ LimitIdle /\ DirectIdle /\ ArgsIdle /\ SweepIdle /\ PendingIdle
StoreRestIdle == CodecIdle /\ DamageIdle /\ RaceIdle /\ CapIdle /\ RunIdle /\ SignalIdle /\ HashIdle /\ RelIdle /\ DumpIdle /\ LockIdle /\ TemporalIdle /\ GetIdle /\ ServeIdle /\ LimitIdle /\ DirectIdle /\ ArgsIdle /\ SweepIdle /\ PendingIdle
DamageRestIdle == CodecIdle /\ StoreIdle /\ RaceIdle /\ CapIdle /\ RunIdle /\ SignalIdle /\ HashIdle /\ RelIdle /\ DumpIdle /\ LockIdle /\ TemporalIdle /\ GetIdle /\ ServeIdle /\ LimitIdle /\ DirectIdle /\ ArgsIdle /\ SweepIdle /\ PendingIdle
RaceRestIdle == CodecIdle /\ StoreIdle /\ DamageIdle /\ CapIdle /\ RunIdle /\ SignalIdle /\ HashIdle /\ RelIdle /\ DumpIdle /\ LockIdle /\ TemporalIdle /\ GetIdle /\ ServeIdle /\ LimitIdle /\ DirectIdle /\ ArgsIdle /\ SweepIdle /\ PendingIdle
CapRestIdle == CodecIdle /\ StoreIdle /\ DamageIdle /\ RaceIdle /\ RunIdle /\ SignalIdle /\ HashIdle /\ RelIdle /\ DumpIdle /\ LockIdle /\ TemporalIdle /\ GetIdle /\ ServeIdle /\ LimitIdle /\ DirectIdle /\ ArgsIdle /\ SweepIdle /\ PendingIdle
RunRestIdle == CodecIdle /\ StoreIdle /\ DamageIdle /\ RaceIdle /\ CapIdle /\ SignalIdle /\ HashIdle /\ RelIdle /\ DumpIdle /\ LockIdle /\ TemporalIdle /\ GetIdle /\ ServeIdle /\ LimitIdle /\ DirectIdle /\ ArgsIdle /\ SweepIdle /\ PendingIdle
SignalRestIdle == CodecIdle /\ StoreIdle /\ DamageIdle /\ RaceIdle /\ CapIdle /\ RunIdle /\ HashIdle /\ RelIdle /\ DumpIdle /\ LockIdle /\ TemporalIdle /\ GetIdle /\ ServeIdle /\ LimitIdle /\ DirectIdle /\ ArgsIdle /\ SweepIdle /\ PendingIdle
HashRestIdle == CodecIdle /\ StoreIdle /\ DamageIdle /\ RaceIdle /\ CapIdle /\ RunIdle /\ SignalIdle /\ RelIdle /\ DumpIdle /\ LockIdle /\ TemporalIdle /\ GetIdle /\ ServeIdle /\ LimitIdle /\ DirectIdle /\ ArgsIdle /\ SweepIdle /\ PendingIdle
RelRestIdle == CodecIdle /\ StoreIdle /\ DamageIdle /\ RaceIdle /\ CapIdle /\ RunIdle /\ SignalIdle /\ HashIdle /\ DumpIdle /\ LockIdle /\ TemporalIdle /\ GetIdle /\ ServeIdle /\ LimitIdle /\ DirectIdle /\ ArgsIdle /\ SweepIdle /\ PendingIdle
DumpRestIdle == CodecIdle /\ StoreIdle /\ DamageIdle /\ RaceIdle /\ CapIdle /\ RunIdle /\ SignalIdle /\ HashIdle /\ RelIdle /\ LockIdle /\ TemporalIdle /\ GetIdle /\ ServeIdle /\ LimitIdle /\ DirectIdle /\ ArgsIdle /\ SweepIdle /\ PendingIdle
LockRestIdle == CodecIdle /\ StoreIdle /\ DamageIdle /\ RaceIdle /\ CapIdle /\ RunIdle /\ SignalIdle /\ HashIdle /\ RelIdle /\ DumpIdle /\ TemporalIdle /\ GetIdle /\ ServeIdle /\ LimitIdle /\ DirectIdle /\ ArgsIdle /\ SweepIdle /\ PendingIdle
TemporalRestIdle == CodecIdle /\ StoreIdle /\ DamageIdle /\ RaceIdle /\ CapIdle /\ RunIdle /\ SignalIdle /\ HashIdle /\ RelIdle /\ DumpIdle /\ LockIdle /\ GetIdle /\ ServeIdle /\ LimitIdle /\ DirectIdle /\ ArgsIdle /\ SweepIdle /\ PendingIdle
GetRestIdle == CodecIdle /\ StoreIdle /\ DamageIdle /\ RaceIdle /\ CapIdle /\ RunIdle /\ SignalIdle /\ HashIdle /\ RelIdle /\ DumpIdle /\ LockIdle /\ TemporalIdle /\ ServeIdle /\ LimitIdle /\ DirectIdle /\ ArgsIdle /\ SweepIdle /\ PendingIdle
ServeRestIdle == CodecIdle /\ StoreIdle /\ DamageIdle /\ RaceIdle /\ CapIdle /\ RunIdle /\ SignalIdle /\ HashIdle /\ RelIdle /\ DumpIdle /\ LockIdle /\ TemporalIdle /\ GetIdle /\ LimitIdle /\ DirectIdle /\ ArgsIdle /\ SweepIdle /\ PendingIdle
LimitRestIdle == CodecIdle /\ StoreIdle /\ DamageIdle /\ RaceIdle /\ CapIdle /\ RunIdle /\ SignalIdle /\ HashIdle /\ RelIdle /\ DumpIdle /\ LockIdle /\ TemporalIdle /\ GetIdle /\ ServeIdle /\ DirectIdle /\ ArgsIdle /\ SweepIdle /\ PendingIdle
DirectRestIdle == CodecIdle /\ StoreIdle /\ DamageIdle /\ RaceIdle /\ CapIdle /\ RunIdle /\ SignalIdle /\ HashIdle /\ RelIdle /\ DumpIdle /\ LockIdle /\ TemporalIdle /\ GetIdle /\ ServeIdle /\ LimitIdle /\ ArgsIdle /\ SweepIdle /\ PendingIdle
ArgsRestIdle == CodecIdle /\ StoreIdle /\ DamageIdle /\ RaceIdle /\ CapIdle /\ RunIdle /\ SignalIdle /\ HashIdle /\ RelIdle /\ DumpIdle /\ LockIdle /\ TemporalIdle /\ GetIdle /\ ServeIdle /\ LimitIdle /\ DirectIdle /\ SweepIdle /\ PendingIdle
SweepRestIdle == CodecIdle /\ StoreIdle /\ DamageIdle /\ RaceIdle /\ CapIdle /\ RunIdle /\ SignalIdle /\ HashIdle /\ RelIdle /\ DumpIdle /\ LockIdle /\ TemporalIdle /\ GetIdle /\ ServeIdle /\ LimitIdle /\ DirectIdle /\ ArgsIdle /\ PendingIdle
PendingRestIdle == CodecIdle /\ StoreIdle /\ DamageIdle /\ RaceIdle /\ CapIdle /\ RunIdle /\ SignalIdle /\ HashIdle /\ RelIdle /\ DumpIdle /\ LockIdle /\ TemporalIdle /\ GetIdle /\ ServeIdle /\ LimitIdle /\ DirectIdle /\ ArgsIdle /\ SweepIdle

(***************************************************************************)
(* SpecCodec: write_manifest followed by read_manifest, on every manifest  *)
(* value of a bounded domain.                                              *)
(***************************************************************************)

MaxCodecFiles == 2
MaxCodecFileInfos == 2
MaxCodecResults == 1

SeqsUpTo(S, n) == UNION {[1..k -> S] : k \in 0..n}

CodecPaths == {<<97>>, <<98, 46, 104>>}   \* "a", "b.h"

CodecFileInfos ==
    { [index |-> 0, digest |-> Digest(1), fsize |-> 0, mtime |-> -1, ctime |-> -1],
      [index |-> 1, digest |-> Digest(2), fsize |-> 300, mtime |-> 70000, ctime |-> 5],
      [index |-> 0, digest |-> Digest(2), fsize |-> 70000, mtime |-> 0, ctime |-> 65791] }

CodecResults ==
    { [file_info_indexes |-> <<>>, name |-> Digest(7)],
      [file_info_indexes |-> <<0>>, name |-> Digest(8)],
      [file_info_indexes |-> <<1, 0>>, name |-> Digest(7)] }

CodecManifests ==
    { [files |-> f, file_infos |-> fi, results |-> r] :
        f \in SeqsUpTo(CodecPaths, MaxCodecFiles),
        fi \in SeqsUpTo(CodecFileInfos, MaxCodecFileInfos),
        r \in SeqsUpTo(CodecResults, MaxCodecResults) }

CodecInit ==
    /\ c_pc = "start"
    /\ c_mf \in CodecManifests
    /\ c_bytes = <<>>
    /\ c_out = NULL
    /\ CodecRestIdle

\* write_manifest(f, mf) into an empty file, then fclose.
CodecWrite ==
    /\ c_pc = "start"
    /\ c_bytes' = write_manifest(c_mf)
    /\ c_pc' = "written"
    /\ UNCHANGED <<c_mf, c_out>>
    /\ UNCHANGED codecRest

\* read_manifest(path) of the file just written.
CodecRead ==
    /\ c_pc = "written"
    /\ c_out' = read_manifest(c_bytes)
    /\ c_pc' = "read"
    /\ UNCHANGED <<c_mf, c_bytes>>
    /\ UNCHANGED codecRest

CodecNext == CodecWrite \/ CodecRead

SpecCodec == CodecInit /\ [][CodecNext]_vars

\* C8: for every manifest value, write_manifest followed by read_manifest of
\* the written file succeeds and yields the same path table, the same
\* FileInfo tuples and the same result entries.
Thm_C8_RoundTrip ==
    c_pc = "read" =>
        /\ c_out # NULL
        /\ c_out.files = c_mf.files
        /\ c_out.file_infos = c_mf.file_infos
        /\ c_out.results = c_mf.results

\* A manifest with paths, file infos (the -1 sentinel among them) and results
\* has been written and read back.
Wit_C8_RoundTrip ==
    /\ c_pc = "read"
    /\ Len(c_mf.files) = 2
    /\ Len(c_mf.file_infos) = 2
    /\ Len(c_mf.results) = 1
    /\ \E i \in 1..2 : c_mf.file_infos[i].mtime = -1
    /\ Len(c_mf.results[1].file_info_indexes) = 2

(***************************************************************************)
(* SpecStore: one manifest file, written by manifest_put and consulted by  *)
(* manifest_get, while the include files change underneath.                *)
(***************************************************************************)

MaxClock == 2
MaxOps == 2

\* The contents an include file takes: 1, an edit of the same size (2) and an
\* edit of another size (3).
Contents == {1, 2, 3}

\* The configurations a lookup may run under.
StoreCtxs ==
    { [sloppiness |-> {}, guessed_compiler |-> "gcc",
       output_is_precompiled_header |-> FALSE],
      [sloppiness |-> {"file_stat_matches"}, guessed_compiler |-> "gcc",
       output_is_precompiled_header |-> FALSE],
      [sloppiness |-> {"file_stat_matches", "file_stat_matches_ctime"},
       guessed_compiler |-> "gcc", output_is_precompiled_header |-> FALSE],
      [sloppiness |-> {"file_stat_matches"}, guessed_compiler |-> "clang",
       output_is_precompiled_header |-> TRUE] }

\* The include sets of the invocations: a.h alone, or a.h and b.h.
StoreIncludeSets == {{PathA}, {PathA, PathB}}

StoreInit ==
    /\ s_fs = [p \in Paths |-> [exists |-> TRUE, content |-> 1,
                                mtime |-> 0, ctime |-> 0]]
    /\ s_now = 1
    /\ s_file = NoManifestFile
    /\ s_get = NoGet
    /\ s_puts = 0
    /\ s_changes = 0
    /\ StoreRestIdle

\* The clock advances by one second.
StoreTick ==
    /\ s_now < MaxClock
    /\ s_now' = s_now + 1
    /\ s_get' = NoGet
    /\ UNCHANGED <<s_fs, s_file, s_puts, s_changes>>
    /\ UNCHANGED storeRest

\* Some program rewrites a.h: any content, with the mtime set to now (an
\* edit, a touch) or kept (a copy that restores it); ctime is now.
StoreChange ==
    /\ s_puts + s_changes < MaxOps
    /\ \E c \in Contents, m \in {s_fs[PathA].mtime, s_now} :
          s_fs' = [s_fs EXCEPT ![PathA] = [exists |-> TRUE, content |-> c,
                                           mtime |-> m, ctime |-> s_now]]
    /\ s_changes' = s_changes + 1
    /\ s_get' = NoGet
    /\ UNCHANGED <<s_now, s_file, s_puts>>
    /\ UNCHANGED storeRest

\* Some program removes a.h.
StoreRemove ==
    /\ s_puts + s_changes < MaxOps
    /\ s_fs[PathA].exists
    /\ s_fs' = [s_fs EXCEPT ![PathA].exists = FALSE]
    /\ s_changes' = s_changes + 1
    /\ s_get' = NoGet
    /\ UNCHANGED <<s_now, s_file, s_puts>>
    /\ UNCHANGED storeRest

\* An invocation that missed stores its result: the preprocessor pass takes
\* time_of_compilation and hashes the include files S it saw, and
\* manifest_put(manifest_path, result_name, g_included_files) follows.
StorePut ==
    /\ s_puts + s_changes < MaxOps
    /\ \E S \in StoreIncludeSets :
          LET included == [p \in S |-> Digest(s_fs[p].content)] IN
          \E order \in Orders(S) :
             s_file' = [exists |-> TRUE,
                        bytes |-> write_manifest(
                           manifest_put_manifest(s_file, ResultKey(s_fs), included,
                                                 order, s_fs, s_now))]
    /\ s_puts' = s_puts + 1
    /\ s_get' = NoGet
    /\ UNCHANGED <<s_fs, s_now, s_changes>>
    /\ UNCHANGED storeRest

\* manifest_get(config, manifest_path) of a later invocation.
StoreGet ==
    /\ s_file.exists
    /\ ~s_get.fresh
    /\ \E ctx \in StoreCtxs :
          s_get' = [fresh |-> TRUE, ctx |-> ctx,
                    name |-> manifest_get(ctx, s_file, s_fs)]
    /\ UNCHANGED <<s_fs, s_now, s_file, s_puts, s_changes>>
    /\ UNCHANGED storeRest

StoreNext == StoreTick \/ StoreChange \/ StoreRemove \/ StorePut \/ StoreGet

SpecStore == StoreInit /\ [][StoreNext]_vars

\* The file infos of the entry the last lookup returned.
ReturnedFileInfos ==
    LET mf == read_manifest(s_file.bytes)
        r == mf.results[manifest_get_index(s_get.ctx, mf, s_fs)]
    IN  { [path |-> mf.files[mf.file_infos[k + 1].index + 1],
           fi |-> mf.file_infos[k + 1]] :
          k \in {r.file_info_indexes[i] : i \in 1..Len(r.file_info_indexes)} }

Returned == s_get.fresh /\ s_get.name # NO_DIGEST

SizeMatches(e) ==
    s_fs[e.path].exists /\ e.fi.fsize = SizeOf(s_fs[e.path].content)

DigestMatches(e) == e.fi.digest = Digest(s_fs[e.path].content)

\* C2 as stated: whenever manifest_get returns a key, every file info of the
\* returned entry has the file's current size, and either the digest of its
\* current content, or file_stat_matches is set and both recorded timestamps
\* equal the current ones.
Cex_C2_BothTimestamps ==
    Returned =>
        \A e \in ReturnedFileInfos :
            /\ SizeMatches(e)
            /\ \/ DigestMatches(e)
               \/ /\ "file_stat_matches" \in s_get.ctx.sloppiness
                  /\ e.fi.mtime = s_fs[e.path].mtime
                  /\ e.fi.ctime = s_fs[e.path].ctime

\* C2, amended: whenever manifest_get returns a key, every file info of the
\* returned entry has the file's current size, and either the digest of its
\* current content, or file_stat_matches is set, the recorded mtime equals
\* the current one, and the recorded ctime equals the current one unless
\* file_stat_matches_ctime is set too.
Thm_C2_Verified ==
    Returned =>
        \A e \in ReturnedFileInfos :
            /\ SizeMatches(e)
            /\ \/ DigestMatches(e)
               \/ /\ "file_stat_matches" \in s_get.ctx.sloppiness
                  /\ e.fi.mtime = s_fs[e.path].mtime
                  /\ \/ e.fi.ctime = s_fs[e.path].ctime
                     \/ "file_stat_matches_ctime" \in s_get.ctx.sloppiness

\* A lookup returned an entry one of whose files passed on its timestamps
\* alone: its content is no longer the recorded one.
Wit_C2_Verified ==
    /\ Returned
    /\ \E e \in ReturnedFileInfos : SizeMatches(e) /\ ~DigestMatches(e)


(***************************************************************************)
(* SpecDamage: a manifest file is written, then truncated or corrupted;    *)
(* a lookup and a manifest_put follow.                                     *)
(***************************************************************************)

MaxDamagePuts == 1

\* The manifest_put calls of this section: [name, S, order].
DamagePuts(k) ==
    UNION { { [name |-> Digest(k),
               included |-> [p \in S |-> Digest(QuietFs[p].content)],
               order |-> o] : o \in Orders(S) } : S \in StoreIncludeSets }

DamagePutOn(file, put) ==
    [exists |-> TRUE,
     bytes |-> write_manifest(manifest_put_manifest(file, put.name, put.included,
                                                    put.order, QuietFs, QuietToc))]

DamageInit ==
    /\ d_pc = "start"
    /\ d_file = NoManifestFile
    /\ d_get = NO_DIGEST
    /\ d_new = [puts |-> 0]
    /\ DamageRestIdle

\* manifest_put of earlier invocations builds the file up.
DamageWrite ==
    /\ d_pc \in {"start", "written"}
    /\ d_new.puts < MaxDamagePuts
    /\ \E put \in DamagePuts(d_new.puts + 1) :
          /\ d_file' = DamagePutOn(d_file, put)
    /\ d_pc' = "written"
    /\ d_new' = [puts |-> d_new.puts + 1]
    /\ UNCHANGED d_get
    /\ UNCHANGED damageRest

\* The file loses its tail: any proper prefix may remain.
DamageTruncate ==
    /\ d_pc = "written"
    /\ \E k \in 0..(Len(d_file.bytes) - 1) :
          d_file' = [d_file EXCEPT !.bytes = SubSeq(@, 1, k)]
    /\ d_pc' = "damaged"
    /\ d_new' = [kind |-> "truncated"]
    /\ UNCHANGED d_get
    /\ UNCHANGED damageRest

\* One byte of the body or of the checksum changes.
DamageCorrupt ==
    /\ d_pc = "written"
    /\ \E i \in (COMMON_HEADER_SIZE + 1)..Len(d_file.bytes) :
          d_file' = [d_file EXCEPT !.bytes[i] = (@ + 1) % 256]
    /\ d_pc' = "damaged"
    /\ d_new' = [kind |-> "corrupted"]
    /\ UNCHANGED d_get
    /\ UNCHANGED damageRest

\* The next invocation looks the manifest up.
DamageGet ==
    /\ d_pc = "damaged"
    /\ \E ctx \in StoreCtxs : d_get' = manifest_get(ctx, d_file, QuietFs)
    /\ d_pc' = "looked"
    /\ UNCHANGED <<d_file, d_new>>
    /\ UNCHANGED damageRest

\* It compiles and stores its result with manifest_put.
DamagePut ==
    /\ d_pc = "looked"
    /\ \E put \in DamagePuts(MaxDamagePuts + 1) :
          /\ d_file' = DamagePutOn(d_file, put)
          /\ d_new' = [kind |-> d_new.kind, put |-> put]
    /\ d_pc' = "replaced"
    /\ UNCHANGED d_get
    /\ UNCHANGED damageRest

DamageNext ==
    DamageWrite \/ DamageTruncate \/ DamageCorrupt \/ DamageGet \/ DamagePut

SpecDamage == DamageInit /\ [][DamageNext]_vars

\* C9: a truncated or checksum-failing manifest is treated like a missing
\* one: manifest_get returns no key, and the manifest_put that follows
\* leaves the file a missing manifest would get, a well-formed manifest
\* whose only result entry is the new one.
Thm_C9_DamagedIsMissing ==
    /\ d_pc \in {"looked", "replaced"} => d_get = NO_DIGEST
    /\ d_pc = "replaced" =>
          /\ d_file = DamagePutOn(NoManifestFile, d_new.put)
          /\ LET mf == read_manifest(d_file.bytes)
             IN  /\ mf # NULL
                 /\ Len(mf.results) = 1
                 /\ mf.results[1].name = d_new.put.name
                 /\ Len(mf.file_infos) = Len(d_new.put.order)

\* A manifest with a changed byte was looked up and then replaced.
Wit_C9_DamagedIsMissing ==
    /\ d_pc = "replaced"
    /\ d_new.kind = "corrupted"
    /\ Len(d_new.put.order) = 2


(***************************************************************************)
(* SpecRace: two processes run manifest_put on one manifest path while a   *)
(* third reads it.  A file name leads to an inode; a process that opened a *)
(* file holds the inode, whatever the name leads to later.                 *)
(***************************************************************************)

MaxRacePuts == 1

Writers == {1, 2}

ManifestPath == <<"manifest">>

NoInode == <<>>

\* A writer that writes the manifest in place.
tmp_file_name_in_place(w) == ManifestPath

\* tmp_file = format("%s.tmp", manifest_path), made unique per process by
\* create_tmp_fd.
tmp_file_name(w) == ManifestPath \o <<"tmp", w>>

RaceNames == {ManifestPath} \cup {tmp_file_name(w) : w \in Writers}

InitialInode == <<0, 0>>

RaceInodes == {InitialInode} \cup (Writers \X (1..MaxRacePuts))

\* What writer w stores with its k-th manifest_put.
RacePutName(w, k) == Digest(16 * k + w)

RaceIncluded(w) ==
    IF w = 1 THEN [p \in {PathA} |-> Digest(QuietFs[p].content)]
    ELSE [p \in Paths |-> Digest(QuietFs[p].content)]

RaceOrder(w) == IF w = 1 THEN <<PathA>> ELSE <<PathB, PathA>>

\* The file a path leads to, as read_manifest's fopen and reads find it.
RaceFileAt(dir, ino, name) ==
    IF dir[name] = NoInode THEN NoManifestFile
    ELSE [exists |-> TRUE, bytes |-> ino[dir[name]]]

RaceWriterStart == [pc |-> "start", k |-> 0, buf |-> <<>>, fd |-> NoInode]

RaceReaderStart == [pc |-> "start", fd |-> NoInode, bytes |-> <<>>, raced |-> FALSE]

\* The manifest path is absent, or holds a manifest an earlier invocation
\* stored.
RaceInit ==
    /\ \E had \in BOOLEAN :
          LET first == write_manifest(manifest_put_manifest(NoManifestFile,
                           RacePutName(0, 0), RaceIncluded(1), RaceOrder(1),
                           QuietFs, QuietToc))
          IN  /\ r_dir = [n \in RaceNames |->
                            IF had /\ n = ManifestPath THEN InitialInode ELSE NoInode]
              /\ r_ino = [i \in RaceInodes |->
                            IF had /\ i = InitialInode THEN first ELSE <<>>]
              /\ r_complete = IF had THEN {first} ELSE {}
    /\ r_w = [w \in Writers |-> RaceWriterStart]
    /\ r_rd = RaceReaderStart
    /\ RaceRestIdle

\* manifest_put, up to add_result_entry: the manifest to write is made from
\* what read_manifest finds at the path.
RacePutRead(w) ==
    /\ r_w[w].pc = "start"
    /\ r_w[w].k < MaxRacePuts
    /\ r_w' = [r_w EXCEPT ![w].pc = "read",
                          ![w].buf = write_manifest(manifest_put_manifest(
                                        RaceFileAt(r_dir, r_ino, ManifestPath),
                                        RacePutName(w, r_w[w].k + 1), RaceIncluded(w),
                                        RaceOrder(w), QuietFs, QuietToc))]
    /\ UNCHANGED <<r_dir, r_ino, r_rd, r_complete>>
    /\ UNCHANGED raceRest

\* create_tmp_fd and fdopen: a new, empty file under the temp name (a name
\* that exists already is opened and emptied).
RacePutCreate(w) ==
    /\ r_w[w].pc = "read"
    /\ LET name == tmp_file_name(w)
           fd == IF r_dir[name] = NoInode THEN <<w, r_w[w].k + 1>> ELSE r_dir[name]
       IN  /\ r_dir' = [r_dir EXCEPT ![name] = fd]
           /\ r_ino' = [r_ino EXCEPT ![fd] = <<>>]
           /\ r_w' = [r_w EXCEPT ![w].pc = "created", ![w].fd = fd]
    /\ UNCHANGED <<r_rd, r_complete>>
    /\ UNCHANGED raceRest

\* write_manifest: the first half of the bytes reach the file.
RacePutWrite(w) ==
    /\ r_w[w].pc = "created"
    /\ r_ino' = [r_ino EXCEPT ![r_w[w].fd] =
                    SubSeq(r_w[w].buf, 1, Len(r_w[w].buf) \div 2)]
    /\ r_w' = [r_w EXCEPT ![w].pc = "writing"]
    /\ UNCHANGED <<r_dir, r_rd, r_complete>>
    /\ UNCHANGED raceRest

\* The rest of write_manifest, and fclose: all the bytes are in the file.
RacePutClose(w) ==
    /\ r_w[w].pc = "writing"
    /\ r_ino' = [r_ino EXCEPT ![r_w[w].fd] = r_w[w].buf]
    /\ r_w' = [r_w EXCEPT ![w].pc = "closed"]
    /\ UNCHANGED <<r_dir, r_rd, r_complete>>
    /\ UNCHANGED raceRest

\* x_rename(tmp_file, manifest_path).
RacePutRename(w) ==
    /\ r_w[w].pc = "closed"
    /\ LET name == tmp_file_name(w)
       IN  r_dir' = IF name = ManifestPath THEN r_dir
                    ELSE [r_dir EXCEPT ![ManifestPath] = r_dir[name],
                                       ![name] = NoInode]
    /\ r_complete' = r_complete \cup {r_w[w].buf}
    /\ r_w' = [r_w EXCEPT ![w] = [pc |-> "start", k |-> r_w[w].k + 1,
                                  buf |-> r_w[w].buf, fd |-> NoInode]]
    /\ UNCHANGED <<r_ino, r_rd>>
    /\ UNCHANGED raceRest

\* read_manifest of the third process: fopen.
RaceReaderOpen ==
    /\ r_rd.pc = "start"
    /\ r_rd' = IF r_dir[ManifestPath] = NoInode
               THEN [r_rd EXCEPT !.pc = "absent"]
               ELSE [pc |-> "opened", fd |-> r_dir[ManifestPath], bytes |-> <<>>,
                     raced |-> \E w \in Writers : r_w[w].pc # "start"]
    /\ UNCHANGED <<r_dir, r_ino, r_w, r_complete>>
    /\ UNCHANGED raceRest

\* Its reads: the first half of the file, then what follows up to the end.
RaceReaderRead ==
    /\ r_rd.pc \in {"opened", "reading"}
    /\ LET now == r_ino[r_rd.fd]
       IN  r_rd' = IF r_rd.pc = "opened"
                   THEN [r_rd EXCEPT !.pc = "reading",
                                     !.bytes = SubSeq(now, 1, Len(now) \div 2)]
                   ELSE [r_rd EXCEPT !.pc = "done",
                                     !.bytes = @ \o SubSeq(now, Len(@) + 1, Len(now))]
    /\ UNCHANGED <<r_dir, r_ino, r_w, r_complete>>
    /\ UNCHANGED raceRest

RaceNext ==
    \/ \E w \in Writers : RacePutRead(w)
    \/ \E w \in Writers : RacePutCreate(w)
    \/ \E w \in Writers : RacePutWrite(w)
    \/ \E w \in Writers : RacePutClose(w)
    \/ \E w \in Writers : RacePutRename(w)
    \/ RaceReaderOpen
    \/ RaceReaderRead

SpecRace == RaceInit /\ [][RaceNext]_vars

RaceFinal == RaceFileAt(r_dir, r_ino, ManifestPath)

RaceAllPut == \A w \in Writers : r_w[w].pc = "start" /\ r_w[w].k = MaxRacePuts

\* C5: what a process reads from the manifest path while manifest_put calls
\* run is a complete manifest, one that was at the path before or one that
\* a manifest_put renamed onto it, never a part of one.
Thm_C5_NoTornRead ==
    r_rd.pc = "done" =>
        /\ r_rd.bytes \in r_complete
        /\ read_manifest(r_rd.bytes) # NULL

\* The reader opened the file while a manifest_put was under way, and the
\* path leads to another manifest by the time it has read the one it opened.
Wit_C5_NoTornRead ==
    /\ r_rd.pc = "done"
    /\ r_rd.raced
    /\ r_rd.bytes # RaceFinal.bytes

\* C6: with two processes in manifest_put on one path, the file at the path
\* is a well-formed manifest at all times, and once both are through it
\* holds the new entry of at least one of them.
Thm_C6_OneAppendSurvives ==
    /\ RaceFinal.exists => read_manifest(RaceFinal.bytes) # NULL
    /\ RaceAllPut =>
          /\ RaceFinal.exists
          /\ LET mf == read_manifest(RaceFinal.bytes)
             IN  \E w \in Writers : \E i \in 1..Len(mf.results) :
                    mf.results[i].name = RacePutName(w, MaxRacePuts)

\* Both are through and the entry of one of them was lost.
Wit_C6_OneAppendSurvives ==
    /\ RaceAllPut
    /\ LET mf == read_manifest(RaceFinal.bytes)
       IN  \E w \in Writers : \A i \in 1..Len(mf.results) :
              mf.results[i].name # RacePutName(w, MaxRacePuts)


(***************************************************************************)
(* SpecCap: a generated header changes for every build, so that every      *)
(* build misses and adds a result entry to the same manifest.              *)
(***************************************************************************)

MaxCapBuilds == 102

\* The include files when a.h is at version v, written at second v (no
\* version holds a time macro).
CapFs(v) ==
    [p \in Paths |-> IF p = PathA
                     THEN [exists |-> TRUE, content |-> 5 * v, mtime |-> v, ctime |-> v]
                     ELSE QuietFs[p]]

CapInit ==
    /\ k_pc = "built"
    /\ k_version = 0
    /\ k_file = NoManifestFile
    /\ k_put = [n_results |-> 0, n_file_infos |-> 0]
    /\ CapRestIdle

\* The header is generated anew.
CapEdit ==
    /\ k_pc = "built"
    /\ k_version < MaxCapBuilds
    /\ k_version' = k_version + 1
    /\ k_pc' = "edited"
    /\ UNCHANGED <<k_file, k_put>>
    /\ UNCHANGED capRest

\* The build that follows misses and ends in manifest_put.
CapPut ==
    /\ k_pc = "edited"
    /\ LET fs == CapFs(k_version)
           mf == manifest_put_manifest(k_file, ResultKey(fs),
                     [p \in {PathA} |-> Digest(fs[p].content)], <<PathA>>,
                     fs, k_version + 1)
       IN  /\ k_file' = [exists |-> TRUE, bytes |-> write_manifest(mf)]
           /\ k_put' = [n_results |-> Len(mf.results),
                        n_file_infos |-> Len(mf.file_infos)]
    /\ k_pc' = "built"
    /\ UNCHANGED k_version
    /\ UNCHANGED capRest

CapNext == CapEdit \/ CapPut

SpecCap == CapInit /\ [][CapNext]_vars

\* C7: the manifest a manifest_put wrote has at most 100 result entries and
\* at most 10000 file-info entries.
Cex_C7_Capped ==
    /\ k_put.n_results <= MAX_MANIFEST_ENTRIES
    /\ k_put.n_file_infos <= MAX_MANIFEST_FILE_INFO_ENTRIES


(***************************************************************************)
(* SpecRun: whole invocations (ccache() in ccache.cpp), one after the      *)
(* other on one cache.  The plain invocation is                            *)
(*     ccache gcc -c a.c -o a.o                                            *)
(* of a source a.c that includes a.h, with direct mode on and a compiler   *)
(* that succeeds; every run of one behaviour has the same deviations from  *)
(* it, drawn from Deviations.                                              *)
(***************************************************************************)

MaxRuns == 2
MaxDeviations == 2

Deviations ==
    { "disable", "no_direct_mode", "read_only", "read_only_direct", "recache",
      "no_second_cpp", "prefix", "prefix_missing", "pump", "ccache_skip", "dash_E",
      "source_time_macro", "include_time_macro", "include_ctime_new",
      "include_mtime_new", "unsupported_directive", "cpp_fails", "cpp_stderr",
      "cc_fails", "cc_stdout", "no_object", "empty_object",
      "tmp_stdout_lost", "tmp_stderr_lost", "sloppy_time_macros" }

InputFile == <<97, 46, 99>>     \* "a.c"

RunFiles == {InputFile, PathA}

\* g_config as the deviations set it.
RunConfig(D) ==
    [disable |-> "disable" \in D,
     direct_mode |-> "no_direct_mode" \notin D,
     read_only |-> "read_only" \in D,
     read_only_direct |-> "read_only_direct" \in D,
     recache |-> "recache" \in D,
     run_second_cpp |-> "no_second_cpp" \notin D,
     depend_mode |-> "depend_mode" \in D,
     prefix_command |-> (IF "prefix" \in D THEN <<"distcc">> ELSE <<>>)
                            \o (IF "prefix_missing" \in D THEN <<"nosuch">> ELSE <<>>),
     sloppiness |-> (IF "sloppy_time_macros" \in D THEN {"time_macros"} ELSE {})
                       \cup (IF "sloppy_include_mtime" \in D
                             THEN {"include_file_mtime"} ELSE {})
                       \cup (IF "sloppy_include_ctime" \in D
                             THEN {"include_file_ctime"} ELSE {})]

\* argv of the invocation.
RunArgv(D) ==
    <<"ccache", IF "pump" \in D THEN "distcc-pump" ELSE "gcc">>
        \o (IF "ccache_skip" \in D THEN <<"--ccache-skip", "-DX">> ELSE <<>>)
        \o (IF "dash_E" \in D THEN <<"-E">> ELSE <<>>)
        \o (IF "dash_MD" \in D THEN <<"-MD">> ELSE <<>>)
        \o (IF "dash_Xpreprocessor" \in D THEN <<"-Xpreprocessor", "-DY">> ELSE <<>>)
        \o (IF "dash_Wp" \in D THEN <<"-Wp,-undef">> ELSE <<>>)
        \o <<"-c", "a.c", "-o", "a.o">>

\* Does a.c compile with this content of a.h?
Compiles(content) == content # 3

\* What the preprocessor and the compiler do when run.
RunCppStatus(D) == IF "cpp_fails" \in D THEN 1 ELSE 0
RunCppStderr(D) == IF "cpp_stderr" \in D THEN <<"a.c:1: warning">> ELSE <<>>
RunCcStatus(D, fs) == IF "cc_fails" \in D \/ ~Compiles(fs[PathA].content) THEN 1 ELSE 0
RunCcStderr(status) == IF status # 0 THEN <<"a.c:2: error">> ELSE <<>>

\* The programs in PATH.
Executables == {"gcc", "distcc", "distcc-pump"}

\* find_executable: the path of the program, "" when there is none.
find_executable(name) == IF name \in Executables THEN "/usr/bin/" \o name ELSE ""

str_startswith(str, prefix) ==
    Len(str) >= Len(prefix) /\ SubSeq(str, 1, Len(prefix)) = prefix

x_basename(path) ==
    IF str_startswith(path, "/usr/bin/") THEN SubSeq(path, 10, Len(path)) ELSE path

\* args_strip: the arguments that do not start with the prefix.
args_strip(args, prefix) == SelectSeq(args, LAMBDA a : ~str_startswith(a, prefix))

\* find_compiler for "ccache compiler ...": the first word goes and the
\* compiler's name is replaced by its path.
find_compiler(argv) == <<find_executable(argv[2])>> \o SubSeq(argv, 3, Len(argv))

\* strstr(str, word) # NULL.
strstr(str, word) ==
    \E i \in 1..Len(str) :
        i + Len(word) - 1 <= Len(str) /\ SubSeq(str, i, i + Len(word) - 1) = word

guess_compiler(path) ==
    IF strstr(x_basename(path), "clang") THEN "clang"
    ELSE IF strstr(x_basename(path), "gcc") \/ strstr(x_basename(path), "g++") THEN "gcc"
    ELSE IF strstr(x_basename(path), "nvcc") THEN "nvcc"
    ELSE IF x_basename(path) \in {"pump", "distcc-pump"} THEN "pump"
    ELSE "unknown"

\* An argument processing that lets every argument pass.
cc_process_args_all(args) == [ok |-> TRUE, stat |-> "", direct |-> TRUE]

\* compopt_too_hard_for_direct_mode(option).
compopt_too_hard_for_direct_mode(option) == option = "-Xpreprocessor"

\* cc_process_args, as far as the invocations here go: --ccache-skip
\* swallows the next argument, -E ends the processing, an option too hard
\* for direct mode and a -Wp, option other than the dependency ones and
\* -Wp,-D switch direct mode off (direct: no argument did).
cc_process_args(args) ==
    LET RECURSIVE Scan(_, _)
        Scan(i, direct) ==
            IF i > Len(args) THEN [ok |-> TRUE, stat |-> "", direct |-> direct]
            ELSE IF args[i] = "--ccache-skip"
            THEN IF i + 1 > Len(args) THEN [ok |-> FALSE, stat |-> "", direct |-> direct]
                 ELSE Scan(i + 2, direct)
            ELSE IF args[i] = "-E"
            THEN [ok |-> FALSE, stat |-> "preprocessing", direct |-> direct]
            ELSE IF compopt_too_hard_for_direct_mode(args[i]) THEN Scan(i + 1, FALSE)
            ELSE IF /\ str_startswith(args[i], "-Wp,")
                    /\ ~str_startswith(args[i], "-Wp,-M")
                    /\ ~str_startswith(args[i], "-Wp,-D")
            THEN Scan(i + 1, FALSE)
            ELSE Scan(i + 1, direct)
    IN  Scan(2, TRUE)

\* A manifest name that leaves the source out.
manifest_name_of_arguments(fs) == Digest(200)

\* The manifest name: a digest of the arguments, the input file's name and
\* the content of the source file.
manifest_name(fs) == Digest(200 + fs[InputFile].content)

\* The manifest paths there can be.
RunManifestPaths == {Digest(200 + c) : c \in 0..4}

\* The result name: a digest of the preprocessed source.
RunResultName(fs) == Digest(100 + fs[InputFile].content * 16 + fs[PathA].content)

\* The result name calculate_result_name gets from the preprocessed source;
\* it is another one under another base_dir.
get_result_name_from_cpp(x) ==
    IF "base_dir" \in x.dev
    THEN Digest(108 + x.fs[InputFile].content * 16 + x.fs[PathA].content)
    ELSE RunResultName(x.fs)

\* The result name of depend mode: the direct hash extended with the files
\* of the dependency file.
RunDependResultName(fs) == Digest(150 + fs[InputFile].content * 16 + fs[PathA].content)

\* What the run did to the cache and which programs it ran, in order:
\* [op, name].
did(x, op, name) == [x EXCEPT !.ops = Append(@, [op |-> op, name |-> name])]

\* cc_log("Disabling direct mode"); g_config.set_direct_mode(false), where
\* the code does it under if (g_config.direct_mode()); direct_off notes after
\* how many steps of the run.
disable_direct_mode(x) ==
    IF x.direct_mode
    THEN [x EXCEPT !.direct_mode = FALSE, !.direct_off = Append(@, Len(x.ops))]
    ELSE x

\* stats_update(stat).
stats_update(x, stat) == [x EXCEPT !.stats = Append(@, stat)]

\* How a run ends: "exit" (x_exit(status)), "exec" (execv of argv) or
\* "fatal" (fatal(), exit status 1).
RunEnd(x, how, status, argv) ==
    [how |-> how, status |-> status, argv |-> argv, stderr |-> x.stderr,
     stats |-> x.stats, cpp_runs |-> x.cpp_runs, cc_runs |-> x.cc_runs,
     cc_status |-> x.cc_status, lookups |-> x.lookups, at |-> x.now,
     cache |-> x.cache, ops |-> x.ops, cc_argv |-> x.cc_argv,
     result_name |-> x.result_name, from_manifest |-> x.from_manifest,
     put_result_in_manifest |-> x.put_result_in_manifest,
     direct_mode |-> x.direct_mode, depend_mode |-> x.depend_mode,
     at_lookup |-> x.at_lookup, direct_off |-> x.direct_off]

\* add_prefix: the words of prefix_command, each resolved by find_executable,
\* in front of args; not ok when a word names no executable (fatal).
add_prefix(args, prefix_command) ==
    IF \E i \in 1..Len(prefix_command) : find_executable(prefix_command[i]) = ""
    THEN [ok |-> FALSE, args |-> args]
    ELSE [ok |-> TRUE,
          args |-> [i \in 1..Len(prefix_command) |->
                        find_executable(prefix_command[i])] \o args]

\* A fallback that runs the compiler on the arguments as they came.
failed_unstripped(x) ==
    LET a == add_prefix(x.orig_args, x.cfg.prefix_command)
    IN  IF a.ok THEN RunEnd(x, "exec", 0, a.args) ELSE RunEnd(x, "fatal", 1, <<>>)

\* failed(): run the real compiler instead.
failed(x) ==
    LET a == add_prefix(args_strip(x.orig_args, "--ccache-"), x.cfg.prefix_command)
    IN  IF a.ok THEN RunEnd(x, "exec", 0, a.args) ELSE RunEnd(x, "fatal", 1, <<>>)


\* An update_manifest_file that never writes.
update_manifest_file_skipped(x) == x

\* An update_manifest_file that does not look at direct mode.
update_manifest_file_in_any_mode(x) ==
    IF x.manifest_path = NO_DIGEST \/ x.cfg.read_only \/ x.cfg.read_only_direct THEN x
    ELSE did([x EXCEPT !.cache.manifests[x.manifest_path] =
                [exists |-> TRUE,
                 bytes |-> write_manifest(manifest_put_manifest(
                              x.cache.manifests[x.manifest_path], x.result_name,
                              x.included,
                              CHOOSE o \in Orders(DOMAIN x.included) : TRUE,
                              x.fs, x.toc))]],
             "manifest_put", x.result_name)

\* update_manifest_file: manifest_put of the result name and the include
\* files, unless direct mode is off or the cache is read-only.
update_manifest_file(x) ==
    IF ~x.direct_mode \/ x.cfg.read_only \/ x.cfg.read_only_direct THEN x
    ELSE did([x EXCEPT !.cache.manifests[x.manifest_path] =
                [exists |-> TRUE,
                 bytes |-> write_manifest(manifest_put_manifest(
                              x.cache.manifests[x.manifest_path], x.result_name,
                              x.included,
                              CHOOSE o \in Orders(DOMAIN x.included) : TRUE,
                              x.fs, x.toc))]],
             "manifest_put", x.result_name)

\* A remember_include_file that leaves out what it cannot record and goes
\* on.
remember_include_file_ignoring(x, path) ==
    LET st == x.fs[path]
        h == hash_source_code_file(x.cfg.sloppiness, x.fs, path)
        failure == disable_direct_mode(x)
    IN  IF ~st.exists THEN failure
        ELSE IF "include_is_dir" \in x.dev THEN x
        ELSE IF "include_not_regular" \in x.dev THEN x
        ELSE IF "include_file_mtime" \notin x.cfg.sloppiness /\ st.mtime >= x.toc
        THEN x
        ELSE IF "include_file_ctime" \notin x.cfg.sloppiness /\ st.ctime >= x.toc
        THEN x
        ELSE IF ~x.direct_mode THEN x
        ELSE IF h.error \/ h.found_time THEN failure
        ELSE [x EXCEPT !.included = (path :> h.digest) @@ @]

\* remember_include_file for an include the preprocessor named: the file
\* goes into g_included_files, or direct mode goes off.  A directory
\* (S_ISDIR) is passed over; another non-regular file, and a file as new as
\* the compilation unless the sloppiness allows it, is a failure.
remember_include_file(x, path) ==
    LET st == x.fs[path]
        h == hash_source_code_file(x.cfg.sloppiness, x.fs, path)
        failure == disable_direct_mode(x)
    IN  IF ~st.exists THEN failure
        ELSE IF "include_is_dir" \in x.dev THEN x
        ELSE IF "include_not_regular" \in x.dev THEN failure
        ELSE IF "include_file_mtime" \notin x.cfg.sloppiness /\ st.mtime >= x.toc
        THEN failure
        ELSE IF "include_file_ctime" \notin x.cfg.sloppiness /\ st.ctime >= x.toc
        THEN failure
        ELSE IF ~x.direct_mode THEN x
        ELSE IF h.error \/ h.found_time THEN failure
        ELSE [x EXCEPT !.included = (path :> h.digest) @@ @]

\* What the run looked up in the cache: "manifest" for a manifest_get,
\* "result" for a result_get in from_cache.
looked_up(x, what) == [x EXCEPT !.lookups = Append(@, what)]

\* from_cache: does it find the result and exit?
from_cache_hits(x) == ~x.cfg.recache /\ x.result_name \in x.cache.results

\* from_cache when it does; at_lookup is the cache as result_get found it.
from_cache(x, mode, put_result_in_manifest) ==
    LET x0 == did([x EXCEPT !.at_lookup = x.cache], "result_get", x.result_name)
        x1 == IF put_result_in_manifest THEN update_manifest_file(x0) ELSE x0
    IN  RunEnd(stats_update(x1, IF mode = "direct" THEN "cache_hit_direct"
                                ELSE "cache_hit_cpp"),
               "exit", 0, <<>>)

\* A to_cache that reports a failed compilation as a success.
to_cache_failure_as_success(x, captured) ==
    RunEnd([x EXCEPT !.stderr = @ \o captured], "exit", 0, <<>>)

\* to_cache when the compiler's exit status is not 0.
to_cache_failure(x, captured) ==
    LET x1 == stats_update(x, "status")
    IN  IF "tmp_stderr_lost" \notin x.dev
        THEN RunEnd([x1 EXCEPT !.stderr = @ \o captured], "exit",
                    x.cc_status, <<>>)
        ELSE failed(x1)

\* The arguments of the compiler in to_cache: the processed ones (the
\* dependency options went to the preprocessor), the output and the input,
\* or the original ones in depend mode.
to_cache_argv(x) ==
    LET orig == args_strip(x.orig_args, "--ccache-")
    IN  IF x.depend_mode THEN add_prefix(orig, x.cfg.prefix_command).args
        ELSE add_prefix(SelectSeq(orig, LAMBDA a : a \notin {"-MD", "-o", "a.o", "a.c"}),
                        x.cfg.prefix_command).args \o <<"-o", "a.o", "a.c">>

\* result_name_from_depfile: remember_include_file on the files the
\* dependency file names, then the result name.
result_name_from_depfile(x) ==
    LET x1 == remember_include_file(x, PathA)
    IN  did([x1 EXCEPT !.result_name = RunDependResultName(x.fs)],
            "result_name_from_depfile", RunDependResultName(x.fs))

\* A to_cache that goes on when the result file is not there after
\* result_put.
result_put_unchecked(x) == FALSE

\* x_stat(cached_result_path) fails after result_put.
result_put_failed(x) == "result_put_fails" \in x.dev

\* result_put(cached_result_path, result_files).
result_put(x) ==
    IF "result_put_fails" \in x.dev THEN did(x, "result_put_failed", x.result_name)
    ELSE did([x EXCEPT !.cache.results = @ \cup {x.result_name}],
             "result_put", x.result_name)

\* to_cache from result_put on.
to_cache_store(x, captured) ==
    LET x1 == result_put(x)
        x2 == stats_update(x1, "to_cache")
        x3 == [x2 EXCEPT !.stderr = @ \o captured]
    IN  IF result_put_failed(x) THEN failed(stats_update(x1, "error"))
        ELSE RunEnd(update_manifest_file(x3), "exit", 0, <<>>)

\* to_cache once the result name is known: the checks of what the compiler
\* made, then result_put.
to_cache_output(x, captured) ==
    IF "no_object" \in x.dev THEN failed(stats_update(x, "no_output"))
    ELSE IF "empty_object" \in x.dev THEN failed(stats_update(x, "empty_output"))
    ELSE IF "tmp_stderr_lost" \in x.dev THEN failed(stats_update(x, "error"))
    ELSE to_cache_store(x, captured)

\* A to_cache that does not look at the compiler's stdout.
compiler_stdout_unchecked(x) == FALSE

\* st.st_size != 0 && guessed_compiler != GUESSED_PUMP for tmp_stdout.
compiler_produced_stdout(x) == "cc_stdout" \in x.dev /\ x.guessed_compiler # "pump"

\* to_cache: run the real compiler and store what it made; ccache() exits
\* with 0 when it returns.
to_cache(x0) ==
    LET x == did([x0 EXCEPT !.cc_runs = @ + 1,
                            !.cc_status = RunCcStatus(x0.dev, x0.fs),
                            !.cc_argv = to_cache_argv(x0),
                            !.toc = IF x0.depend_mode THEN x0.now ELSE @],
                 "cc", NO_DIGEST)
        cpp_stderr == ~x.cfg.run_second_cpp
        captured == (IF cpp_stderr THEN RunCppStderr(x.dev) ELSE <<>>)
                        \o RunCcStderr(x.cc_status)
    IN  IF "tmp_stdout_lost" \in x.dev THEN failed(stats_update(x, "missing"))
        ELSE IF compiler_produced_stdout(x) THEN failed(stats_update(x, "stdout"))
        ELSE IF cpp_stderr /\ "tmp_stderr_lost" \in x.dev THEN failed(x)
        ELSE IF x.cc_status # 0 THEN to_cache_failure(x, captured)
        ELSE IF x.depend_mode /\ "no_depfile" \in x.dev THEN failed(x)
        ELSE to_cache_output(IF x.depend_mode THEN result_name_from_depfile(x) ELSE x,
                             captured)

\* ccache() from the preprocessor lookup on: get_result_name_from_cpp,
\* from_cache, and to_cache when that did not exit.
ccache_after_cpp(x) ==
    IF x.cfg.read_only THEN failed(x)
    ELSE IF ~add_prefix(<<>>, x.cfg.prefix_command).ok
    THEN RunEnd(x, "fatal", 1, <<>>)
    ELSE to_cache(x)

\* A ccache() that runs the preprocessor in depend mode too.
preprocessor_never_skipped(x) == FALSE

\* if (!g_config.depend_mode()): depend mode skips the preprocessor.
preprocessor_skipped(x) == x.depend_mode

\* A ccache() that keeps the manifest whatever name it gave.
manifest_is_never_stale(x, name) == FALSE

\* The manifest gave a name and the preprocessor gives another one: the
\* manifest file is removed and the new name is to go into the manifest.
manifest_is_stale(x, name) == x.from_manifest # NO_DIGEST /\ x.from_manifest # name

ccache_after_direct(x0) ==
    IF x0.cfg.read_only_direct THEN failed(x0)
    ELSE IF preprocessor_skipped(x0) THEN ccache_after_cpp(x0)
    ELSE LET x == did([x0 EXCEPT !.toc = x0.now, !.cpp_runs = @ + 1],
                      "cpp", NO_DIGEST) IN
    IF RunCppStatus(x.dev) # 0 THEN failed(stats_update(x, "preprocessor"))
    ELSE IF "unsupported_directive" \in x.dev
    THEN failed(stats_update(x, "unsupported_directive"))
    ELSE LET x1 == remember_include_file(x, PathA)
             name == get_result_name_from_cpp(x)
             differs == manifest_is_stale(x, name)
             x2 == [x1 EXCEPT !.result_name = name,
                              !.cache.manifests = IF differs
                                                  THEN [@ EXCEPT ![x.manifest_path] = NoManifestFile]
                                                  ELSE @,
                              !.put_result_in_manifest = IF differs THEN TRUE ELSE @,
                              !.ops = IF differs
                                      THEN Append(@, [op |-> "manifest_unlink",
                                                      name |-> x.from_manifest])
                                      ELSE @,
                              !.lookups = IF x.cfg.recache THEN @
                                          ELSE Append(@, "result")]
         IN  IF from_cache_hits(x2)
             THEN from_cache(x2, "cpp", x2.put_result_in_manifest)
             ELSE ccache_after_cpp(x2)

\* A ccache() that never asks for the result to be put into the manifest.
put_result_never(name) == FALSE

\* put_result_in_manifest after the direct lookup: the result is to be added
\* to the manifest later when the manifest gave no name.
put_result_after_direct(name) == name = NO_DIGEST

\* ccache() after manifest_get returned name: from_cache on the name found,
\* and otherwise on with the preprocessor.
ccache_direct_looked_up(x, name) ==
    IF name # NO_DIGEST /\ from_cache_hits([x EXCEPT !.result_name = name])
    THEN from_cache(looked_up([x EXCEPT !.result_name = name], "result"),
                    "direct", FALSE)
    ELSE ccache_after_direct(
            IF name = NO_DIGEST
            THEN [x EXCEPT !.put_result_in_manifest = put_result_after_direct(name)]
            ELSE IF x.cfg.recache
            THEN [x EXCEPT !.result_name = name, !.from_manifest = name]
            ELSE looked_up([x EXCEPT !.result_name = name, !.from_manifest = name],
                           "result"))

\* A direct lookup that goes on whatever the source holds.
ccache_direct_found_any(x, h, name) ==
    IF h.error THEN failed(x)
    ELSE ccache_direct_looked_up(
            looked_up([x EXCEPT !.manifest_path = manifest_name(x.fs)], "manifest"),
            name)

\* ccache() after calculate_result_name in direct mode hashed the source
\* (h) and looked the manifest up (name): from_cache on the name found
\* there, and otherwise on with the preprocessor.
ccache_direct_found(x, h, name) ==
    IF h.error THEN failed(x)
    ELSE IF h.found_time
    THEN ccache_after_direct([disable_direct_mode(x) EXCEPT
                                 !.put_result_in_manifest = TRUE])
    ELSE ccache_direct_looked_up(
            looked_up([x EXCEPT !.manifest_path = manifest_name(x.fs)], "manifest"),
            name)

\* ccache() up to the direct lookup.
ccache_direct(x) ==
    IF ~x.direct_mode THEN ccache_after_direct(x)
    ELSE ccache_direct_found(
            x, hash_source_code_file(x.cfg.sloppiness, x.fs, InputFile),
            manifest_get([sloppiness |-> x.cfg.sloppiness,
                          guessed_compiler |-> x.guessed_compiler,
                          output_is_precompiled_header |-> FALSE],
                         x.cache.manifests[manifest_name(x.fs)], x.fs))

\* ccache(): one invocation with deviations D, on files fs and the cache,
\* at second now.
ccache(D, fs, cache, now) ==
    LET orig_args == find_compiler(RunArgv(D))
        x == [dev |-> D, cfg |-> RunConfig(D), orig_args |-> orig_args,
              guessed_compiler |-> guess_compiler(orig_args[1]),
              fs |-> fs, now |-> now, cache |-> cache,
              direct_mode |-> RunConfig(D).direct_mode, toc |-> 0,
              included |-> <<>>, result_name |-> NO_DIGEST,
              manifest_path |-> NO_DIGEST,
              from_manifest |-> NO_DIGEST, put_result_in_manifest |-> FALSE,
              stats |-> <<>>, stderr |-> <<>>, cpp_runs |-> 0, cc_runs |-> 0,
              cc_status |-> 0, lookups |-> <<>>, ops |-> <<>>, cc_argv |-> <<>>,
              depend_mode |-> /\ RunConfig(D).depend_mode
                              /\ "dash_MD" \in D
                              /\ RunConfig(D).run_second_cpp,
              at_lookup |-> cache, direct_off |-> <<>>]
        args == cc_process_args(orig_args)
    IN  IF x.cfg.disable THEN failed(x)
        ELSE IF ~args.ok
        THEN failed(IF args.stat = "" THEN x ELSE stats_update(x, args.stat))
        ELSE ccache_direct(IF args.direct THEN x ELSE disable_direct_mode(x))

EmptyCache == [manifests |-> [p \in RunManifestPaths |-> NoManifestFile], results |-> {}]

\* The sets of at most n deviations.
RECURSIVE DeviationSets(_)
DeviationSets(n) ==
    IF n = 0 THEN {{}}
    ELSE DeviationSets(n - 1)
            \cup {S \cup {d} : S \in DeviationSets(n - 1), d \in Deviations}

\* An empty cache; a.c and a.h as the deviations have them, a.h last written
\* at second 0, or at second 1, when the first run starts.
RunInit ==
    /\ u_dev \in DeviationSets(MaxDeviations)
    /\ u_fs = [p \in RunFiles |->
                 IF p = InputFile
                 THEN [exists |-> TRUE,
                       content |-> IF "source_time_macro" \in u_dev THEN 4 ELSE 1,
                       mtime |-> 0, ctime |-> 0]
                 ELSE [exists |-> TRUE,
                       content |-> IF "include_time_macro" \in u_dev THEN 4 ELSE 1,
                       mtime |-> IF "include_mtime_new" \in u_dev THEN 1 ELSE 0,
                       ctime |-> IF {"include_mtime_new", "include_ctime_new"}
                                       \cap u_dev # {} THEN 1 ELSE 0]]
    /\ u_now = 1
    /\ u_cache = EmptyCache
    /\ u_before = EmptyCache
    /\ u_out = <<>>
    /\ u_edited = FALSE
    /\ RunRestIdle

\* One invocation, from main() to its exit or exec; it takes a second.
RunInvoke ==
    /\ Len(u_out) < MaxRuns
    /\ \E out \in {ccache(u_dev, u_fs, u_cache, u_now)} :
          /\ u_out' = Append(u_out, [how |-> out.how, status |-> out.status,
                                     argv |-> out.argv, stderr |-> out.stderr,
                                     stats |-> out.stats, cpp_runs |-> out.cpp_runs,
                                     cc_runs |-> out.cc_runs,
                                     cc_status |-> out.cc_status,
                                     lookups |-> out.lookups, at |-> out.at])
          /\ u_cache' = out.cache
    /\ u_before' = u_cache
    /\ u_now' = u_now + 1
    /\ UNCHANGED <<u_dev, u_fs, u_edited>>
    /\ UNCHANGED runRest

\* Between two runs a.h is rewritten with another content, one that
\* compiles or one that does not, or a.c is.
RunEdit ==
    /\ Len(u_out) \in 1..(MaxRuns - 1)
    /\ ~u_edited
    /\ \E e \in {<<PathA, 2>>, <<PathA, 3>>, <<InputFile, 2>>} :
          u_fs' = [u_fs EXCEPT ![e[1]] = [exists |-> TRUE, content |-> e[2],
                                         mtime |-> u_now, ctime |-> u_now]]
    /\ u_edited' = TRUE
    /\ u_now' = u_now + 1
    /\ UNCHANGED <<u_dev, u_cache, u_before, u_out>>
    /\ UNCHANGED runRest

RunNext == RunInvoke \/ RunEdit

SpecRun == RunInit /\ [][RunNext]_vars


(***************************************************************************)
(* Two runs of the same invocation                                         *)
(***************************************************************************)

\* The invocation is cacheable, direct mode is on, and there is no
\* read-only or recache setting.
RunCacheable ==
    u_dev \cap {"disable", "dash_E", "unsupported_directive", "cpp_fails",
                "cc_fails", "cc_stdout", "no_object", "empty_object",
                "tmp_stdout_lost", "tmp_stderr_lost", "prefix_missing",
                "no_direct_mode", "read_only", "read_only_direct",
                "recache"} = {}

\* The first run was a miss that compiled once and stored the result.
FirstRunStores ==
    /\ u_out[1].how = "exit" /\ u_out[1].status = 0
    /\ u_out[1].cc_runs = 1
    /\ u_out[1].stats = <<"to_cache">>
    /\ RunResultName(u_fs) \in (IF Len(u_out) = 1 THEN u_cache ELSE u_before).results

\* The second run was a direct hit.
SecondRunDirectHit ==
    /\ u_out[2].how = "exit" /\ u_out[2].status = 0
    /\ u_out[2].stats = <<"cache_hit_direct">>
    /\ u_out[2].cpp_runs = 0 /\ u_out[2].cc_runs = 0

RunDirectModeStays ==
    /\ "include_ctime_new" \notin u_dev
    /\ u_dev \cap {"source_time_macro", "include_time_macro"} # {}
          => "sloppy_time_macros" \in u_dev

LastRunCompilerFailed ==
    /\ Len(u_out) >= 1
    /\ u_out[Len(u_out)].cc_runs = 1
    /\ u_out[Len(u_out)].cc_status # 0

\* What the run captured of the compiler's stderr, with the preprocessor's
\* stderr in front when the preprocessor is not run a second time.
RunCaptured ==
    (IF "no_second_cpp" \in u_dev /\ "cpp_stderr" \in u_dev
     THEN <<"a.c:1: warning">> ELSE <<>>) \o <<"a.c:2: error">>

\* The last run wrote the captured stderr and exited with the compiler's
\* status.
LastRunPropagates ==
    /\ u_out[Len(u_out)].how = "exit"
    /\ u_out[Len(u_out)].status = u_out[Len(u_out)].cc_status
    /\ u_out[Len(u_out)].stderr = RunCaptured

\* C3 as stated: whenever the compiler exits with a nonzero status, ccache
\* writes the captured stderr, exits with that status and stores nothing.
Cex_C3_StatusPropagated ==
    LastRunCompilerFailed => (LastRunPropagates /\ u_cache = u_before)

\* The compiler's stdout is discarded or empty, and the files holding its
\* output are still there after it ran.
RunOutputUsable ==
    /\ "cc_stdout" \in u_dev => "pump" \in u_dev
    /\ u_dev \cap {"tmp_stdout_lost", "tmp_stderr_lost"} = {}

\* C3: whenever the compiler exits with a nonzero status, ccache stores
\* neither a result nor a manifest entry; when the compiler's stdout was
\* empty (or the compiler is distcc-pump) and the files capturing its
\* output can be read, ccache writes the captured stderr to its own stderr
\* and exits with exactly that status; otherwise it runs the real compiler
\* again in its own place.
Thm_C3_StatusPropagated ==
    LastRunCompilerFailed
        => /\ u_cache = u_before
           /\ IF RunOutputUsable THEN LastRunPropagates
              ELSE u_out[Len(u_out)].how = "exec"
                      /\ u_out[Len(u_out)].stderr = <<>>

Wit_C3_StatusPropagated ==
    /\ LastRunCompilerFailed
    /\ Len(u_out) = 2 /\ u_edited
    /\ u_out[1].stats = <<"to_cache">>
    /\ u_out[2].how = "exit" /\ u_out[2].status = 1
    /\ u_out[2].stderr = <<"a.c:2: error">>
    /\ u_cache = u_before /\ u_cache.results # {}

(***************************************************************************)
(* The fallback                                                            *)
(***************************************************************************)

\* The last run met an uncacheable condition: the cache is disabled, the
\* arguments ask for preprocessing only, the preprocessed source holds an
\* unsupported directive, the cache is read-only and the lookup missed, or
\* the compiler's output cannot be used.
LastRunUncacheable ==
    /\ Len(u_out) >= 1
    /\ LET o == u_out[Len(u_out)]
           hit == \E i \in 1..Len(o.stats) :
                     o.stats[i] \in {"cache_hit_direct", "cache_hit_cpp"}
       IN  \/ "disable" \in u_dev
           \/ "dash_E" \in u_dev
           \/ "unsupported_directive" \in u_dev /\ o.cpp_runs = 1
                 /\ "cpp_fails" \notin u_dev
           \/ u_dev \cap {"read_only", "read_only_direct"} # {} /\ ~hit
           \/ /\ o.cc_runs = 1
              /\ \/ "cc_stdout" \in u_dev /\ "pump" \notin u_dev
                 \/ o.cc_status = 0 /\ u_dev \cap {"no_object", "empty_object"} # {}

\* The arguments as they came, the compiler's name resolved, without those
\* starting with --ccache-, behind the words of prefix_command.
RunFallbackArgv ==
    (IF "prefix" \in u_dev THEN <<"/usr/bin/distcc">> ELSE <<>>)
        \o (IF "prefix_missing" \in u_dev THEN <<"/usr/bin/nosuch">> ELSE <<>>)
        \o <<IF "pump" \in u_dev THEN "/usr/bin/distcc-pump" ELSE "/usr/bin/gcc">>
        \o (IF "ccache_skip" \in u_dev THEN <<"-DX">> ELSE <<>>)
        \o (IF "dash_E" \in u_dev THEN <<"-E">> ELSE <<>>)
        \o <<"-c", "a.c", "-o", "a.o">>

\* C4 as stated: every uncacheable condition ends in an exec of the real
\* compiler on the original arguments without the --ccache- ones, behind
\* prefix_command.
Cex_C4_FallbackExec ==
    LastRunUncacheable
        => /\ u_out[Len(u_out)].how = "exec"
           /\ u_out[Len(u_out)].argv = RunFallbackArgv

\* C4: every uncacheable condition ends in an exec of the real compiler on
\* the original arguments without those starting with --ccache-, behind
\* the words of prefix_command, when each of these words names an
\* executable in PATH; when one does not, the run ends in a fatal error,
\* exit status 1, and nothing is exec'ed.
Thm_C4_FallbackExec ==
    LastRunUncacheable
        => IF "prefix_missing" \notin u_dev
           THEN /\ u_out[Len(u_out)].how = "exec"
                /\ u_out[Len(u_out)].argv = RunFallbackArgv
           ELSE /\ u_out[Len(u_out)].how = "fatal"
                /\ u_out[Len(u_out)].status = 1
                /\ u_out[Len(u_out)].argv = <<>>

Wit_C4_FallbackExec ==
    /\ LastRunUncacheable
    /\ u_dev = {"ccache_skip", "cc_stdout"}
    /\ u_out[Len(u_out)].cc_runs = 1
    /\ u_out[Len(u_out)].how = "exec"
    /\ u_out[Len(u_out)].argv = <<"/usr/bin/gcc", "-DX", "-c", "a.c", "-o", "a.o">>


(***************************************************************************)
(* SpecSignal: one invocation that goes through the preprocessor, step by  *)
(* step as far as its temporary files and its child process go, and a      *)
(* fatal signal that may arrive between any two steps (signal_handler in   *)
(* ccache.cpp).  The temporary directory is empty when the invocation      *)
(* starts.  execute() forks and sets compiler_pid with signals blocked,    *)
(* and clears it when the child has been waited for.                       *)
(***************************************************************************)

\* The signals sent (the handler treats SIGHUP and SIGQUIT as SIGINT).
FatalSignals == {"SIGINT", "SIGTERM"}

NoSignal == ""

\* What the invocation meets: whether the preprocessor is run a second
\* time, whether the result is in the cache, and the exit statuses of the
\* preprocessor and of the compiler.
SignalCfgs ==
    [run_second_cpp : BOOLEAN, hit : BOOLEAN, cpp_status : {0, 1}, cc_status : {0, 1}]

\* The places where the invocation has ended.
SignalEnded == {"exited", "exec", "killed"}

SignalInit ==
    /\ g_cfg \in SignalCfgs
    /\ g_pc = "main"
    /\ g_tmp = {}
    /\ g_pending = <<>>
    /\ g_child = "none"
    /\ g_compiler_pid = 0
    /\ g_signum = NoSignal
    /\ g_hpc = "none"
    /\ g_log = <<>>
    /\ SignalRestIdle

\* The invocation goes on only while no signal has arrived.
SignalAt(pc) == g_pc = pc /\ g_signum = NoSignal

\* create_tmp_fd(&path): a new file in the temporary directory.
create_tmp_fd(tmp, path) == tmp \cup {path}

\* add_pending_tmp_file: the path goes to the front of the list.
add_pending_tmp_file(pending, path) == <<path>> \o pending

\* do_clean_up_pending_tmp_files: unlink every pending path.
do_clean_up_pending_tmp_files(tmp, pending) ==
    tmp \ {pending[i] : i \in 1..Len(pending)}

\* get_result_name_from_cpp: path_stdout = create_tmp_fd.
SignalCppCreateStdout ==
    /\ SignalAt("main")
    /\ g_tmp' = create_tmp_fd(g_tmp, "path_stdout")
    /\ g_pc' = "cpp_stdout_created"
    /\ UNCHANGED <<g_cfg, g_pending, g_child, g_compiler_pid, g_signum, g_hpc, g_log>>
    /\ UNCHANGED signalRest

\* add_pending_tmp_file(path_stdout).
SignalCppAddStdout ==
    /\ SignalAt("cpp_stdout_created")
    /\ g_pending' = add_pending_tmp_file(g_pending, "path_stdout")
    /\ g_pc' = "cpp_stdout_pending"
    /\ UNCHANGED <<g_cfg, g_tmp, g_child, g_compiler_pid, g_signum, g_hpc, g_log>>
    /\ UNCHANGED signalRest

\* path_stderr = create_tmp_fd.
SignalCppCreateStderr ==
    /\ SignalAt("cpp_stdout_pending")
    /\ g_tmp' = create_tmp_fd(g_tmp, "path_stderr")
    /\ g_pc' = "cpp_stderr_created"
    /\ UNCHANGED <<g_cfg, g_pending, g_child, g_compiler_pid, g_signum, g_hpc, g_log>>
    /\ UNCHANGED signalRest

\* add_pending_tmp_file(path_stderr).
SignalCppAddStderr ==
    /\ SignalAt("cpp_stderr_created")
    /\ g_pending' = add_pending_tmp_file(g_pending, "path_stderr")
    /\ g_pc' = "cpp_stderr_pending"
    /\ UNCHANGED <<g_cfg, g_tmp, g_child, g_compiler_pid, g_signum, g_hpc, g_log>>
    /\ UNCHANGED signalRest

\* execute(): the preprocessor is started.
SignalCppExecute ==
    /\ SignalAt("cpp_stderr_pending")
    /\ g_child' = "running"
    /\ g_compiler_pid' = 1
    /\ g_pc' = "cpp_running"
    /\ UNCHANGED <<g_cfg, g_tmp, g_pending, g_signum, g_hpc, g_log>>
    /\ UNCHANGED signalRest

\* The child ends by itself.
SignalChildExit ==
    /\ g_child = "running"
    /\ g_child' = "ended"
    /\ UNCHANGED <<g_cfg, g_pc, g_tmp, g_pending, g_compiler_pid, g_signum, g_hpc, g_log>>
    /\ UNCHANGED signalRest

\* execute() returns the preprocessor's status; when it is not 0, failed()
\* follows.
SignalCppReturn ==
    /\ SignalAt("cpp_running")
    /\ g_child = "ended"
    /\ g_child' = "none"
    /\ g_compiler_pid' = 0
    /\ g_pc' = IF g_cfg.cpp_status # 0 THEN "failed" ELSE "cpp_returned"
    /\ UNCHANGED <<g_cfg, g_tmp, g_pending, g_signum, g_hpc, g_log>>
    /\ UNCHANGED signalRest

\* x_rename(path_stdout, i_tmpfile).
SignalCppRename ==
    /\ SignalAt("cpp_returned")
    /\ g_tmp' = (g_tmp \ {"path_stdout"}) \cup {"i_tmpfile"}
    /\ g_pc' = "i_tmpfile_created"
    /\ UNCHANGED <<g_cfg, g_pending, g_child, g_compiler_pid, g_signum, g_hpc, g_log>>
    /\ UNCHANGED signalRest

\* add_pending_tmp_file(i_tmpfile).
SignalCppAddITmpfile ==
    /\ SignalAt("i_tmpfile_created")
    /\ g_pending' = add_pending_tmp_file(g_pending, "i_tmpfile")
    /\ g_pc' = "from_cache"
    /\ UNCHANGED <<g_cfg, g_tmp, g_child, g_compiler_pid, g_signum, g_hpc, g_log>>
    /\ UNCHANGED signalRest

\* from_cache: tmp_stderr = create_tmp_fd.
SignalFromCacheCreate ==
    /\ SignalAt("from_cache")
    /\ g_tmp' = create_tmp_fd(g_tmp, "from_cache.tmp_stderr")
    /\ g_pc' = "from_cache_get"
    /\ UNCHANGED <<g_cfg, g_pending, g_child, g_compiler_pid, g_signum, g_hpc, g_log>>
    /\ UNCHANGED signalRest

\* from_cache: result_get and tmp_unlink(tmp_stderr); x_exit(0) on a hit,
\* on to to_cache on a miss.
SignalFromCacheGet ==
    /\ SignalAt("from_cache_get")
    /\ g_tmp' = g_tmp \ {"from_cache.tmp_stderr"}
    /\ g_pc' = IF g_cfg.hit THEN "x_exit" ELSE "to_cache"
    /\ UNCHANGED <<g_cfg, g_pending, g_child, g_compiler_pid, g_signum, g_hpc, g_log>>
    /\ UNCHANGED signalRest

\* to_cache: tmp_stdout = create_tmp_fd.
SignalCcCreateStdout ==
    /\ SignalAt("to_cache")
    /\ g_tmp' = create_tmp_fd(g_tmp, "to_cache.tmp_stdout")
    /\ g_pc' = "cc_stdout_created"
    /\ UNCHANGED <<g_cfg, g_pending, g_child, g_compiler_pid, g_signum, g_hpc, g_log>>
    /\ UNCHANGED signalRest

\* to_cache: tmp_stderr = create_tmp_fd.
SignalCcCreateStderr ==
    /\ SignalAt("cc_stdout_created")
    /\ g_tmp' = create_tmp_fd(g_tmp, "to_cache.tmp_stderr")
    /\ g_pc' = "cc_stderr_created"
    /\ UNCHANGED <<g_cfg, g_pending, g_child, g_compiler_pid, g_signum, g_hpc, g_log>>
    /\ UNCHANGED signalRest

\* execute(): the compiler is started.
SignalCcExecute ==
    /\ SignalAt("cc_stderr_created")
    /\ g_child' = "running"
    /\ g_compiler_pid' = 1
    /\ g_pc' = "cc_running"
    /\ UNCHANGED <<g_cfg, g_tmp, g_pending, g_signum, g_hpc, g_log>>
    /\ UNCHANGED signalRest

\* execute() returns the compiler's status.
SignalCcReturn ==
    /\ SignalAt("cc_running")
    /\ g_child = "ended"
    /\ g_child' = "none"
    /\ g_compiler_pid' = 0
    /\ g_pc' = "cc_returned"
    /\ UNCHANGED <<g_cfg, g_tmp, g_pending, g_signum, g_hpc, g_log>>
    /\ UNCHANGED signalRest

\* to_cache: tmp_unlink(tmp_stdout).
SignalCcUnlinkStdout ==
    /\ SignalAt("cc_returned")
    /\ g_tmp' = g_tmp \ {"to_cache.tmp_stdout"}
    /\ g_pc' = "cc_stdout_unlinked"
    /\ UNCHANGED <<g_cfg, g_pending, g_child, g_compiler_pid, g_signum, g_hpc, g_log>>
    /\ UNCHANGED signalRest

\* to_cache with run_second_cpp off: cpp_stderr and tmp_stderr are merged
\* into tmp_stderr by way of tmp_stderr2.
SignalCcMergeStderr ==
    /\ SignalAt("cc_stdout_unlinked")
    /\ ~g_cfg.run_second_cpp
    /\ g_pc' = "cc_stderr_merged"
    /\ UNCHANGED <<g_cfg, g_tmp, g_pending, g_child, g_compiler_pid, g_signum, g_hpc, g_log>>
    /\ UNCHANGED signalRest

\* to_cache: the stderr is copied or stored, tmp_unlink(tmp_stderr), and
\* x_exit with the compiler's status, or 0 from ccache().
SignalCcUnlinkStderr ==
    /\ \/ SignalAt("cc_stdout_unlinked") /\ g_cfg.run_second_cpp
       \/ SignalAt("cc_stderr_merged")
    /\ g_tmp' = g_tmp \ {"to_cache.tmp_stderr"}
    /\ g_pc' = "x_exit"
    /\ UNCHANGED <<g_cfg, g_pending, g_child, g_compiler_pid, g_signum, g_hpc, g_log>>
    /\ UNCHANGED signalRest

\* x_exit: exitfn_call runs clean_up_pending_tmp_files.
SignalExit ==
    /\ SignalAt("x_exit")
    /\ g_tmp' = do_clean_up_pending_tmp_files(g_tmp, g_pending)
    /\ g_pc' = "exited"
    /\ UNCHANGED <<g_cfg, g_pending, g_child, g_compiler_pid, g_signum, g_hpc, g_log>>
    /\ UNCHANGED signalRest

\* failed(): exitfn_call, then execv.
SignalFailed ==
    /\ SignalAt("failed")
    /\ g_tmp' = do_clean_up_pending_tmp_files(g_tmp, g_pending)
    /\ g_pc' = "exec"
    /\ UNCHANGED <<g_cfg, g_pending, g_child, g_compiler_pid, g_signum, g_hpc, g_log>>
    /\ UNCHANGED signalRest

\* A call of signal_handler, with the state of the child when it is made.
SignalCall(call) == [call |-> call, child |-> g_child]

\* A fatal signal arrives and signal_handler starts: signal(signum, SIG_DFL).
SignalHandler ==
    /\ g_signum = NoSignal
    /\ g_pc \notin SignalEnded
    /\ \E signum \in FatalSignals : g_signum' = signum
    /\ g_hpc' = "entered"
    /\ g_log' = Append(g_log, SignalCall("signal"))
    /\ UNCHANGED <<g_cfg, g_pc, g_tmp, g_pending, g_child, g_compiler_pid>>
    /\ UNCHANGED signalRest

\* A handler that passes every signal on to the child.
signal_forwarded_always(signum, compiler_pid, child) ==
    compiler_pid # 0 /\ child = "running"

\* signal_handler: is the signal sent to the child?  waitpid(WNOHANG) is 0
\* for a child that still runs.
signal_forwarded(signum, compiler_pid, child) ==
    signum = "SIGTERM" /\ compiler_pid # 0 /\ child = "running"

\* signal_handler: SIGTERM is passed on to a child that still runs.
SignalHandlerKill ==
    /\ g_hpc = "entered"
    /\ IF signal_forwarded(g_signum, g_compiler_pid, g_child)
       THEN g_child' = "ended" /\ g_log' = Append(g_log, SignalCall("kill"))
       ELSE UNCHANGED <<g_child, g_log>>
    /\ g_hpc' = "forwarded"
    /\ UNCHANGED <<g_cfg, g_pc, g_tmp, g_pending, g_compiler_pid, g_signum>>
    /\ UNCHANGED signalRest

\* signal_handler: do_clean_up_pending_tmp_files.
SignalHandlerCleanUp ==
    /\ g_hpc = "forwarded"
    /\ g_tmp' = do_clean_up_pending_tmp_files(g_tmp, g_pending)
    /\ g_log' = Append(g_log, SignalCall("unlink"))
    /\ g_hpc' = "cleaned"
    /\ UNCHANGED <<g_cfg, g_pc, g_pending, g_child, g_compiler_pid, g_signum>>
    /\ UNCHANGED signalRest

\* signal_handler: waitpid(compiler_pid) when there is a compiler_pid; it
\* returns when the child has ended.
SignalHandlerWait ==
    /\ g_hpc = "cleaned"
    /\ IF g_compiler_pid # 0
       THEN /\ g_child # "running"
            /\ g_child' = "none"
            /\ g_log' = Append(g_log, SignalCall("waitpid"))
       ELSE UNCHANGED <<g_child, g_log>>
    /\ g_hpc' = "waited"
    /\ UNCHANGED <<g_cfg, g_pc, g_tmp, g_pending, g_compiler_pid, g_signum>>
    /\ UNCHANGED signalRest

\* signal_handler: kill(getpid(), signum), now with the default action.
SignalHandlerEnd ==
    /\ g_hpc = "waited"
    /\ g_log' = Append(g_log, SignalCall("raise"))
    /\ g_hpc' = "done"
    /\ g_pc' = "killed"
    /\ UNCHANGED <<g_cfg, g_tmp, g_pending, g_child, g_compiler_pid, g_signum>>
    /\ UNCHANGED signalRest

SignalNext ==
    \/ SignalCppCreateStdout \/ SignalCppAddStdout
    \/ SignalCppCreateStderr \/ SignalCppAddStderr
    \/ SignalCppExecute \/ SignalChildExit \/ SignalCppReturn
    \/ SignalCppRename \/ SignalCppAddITmpfile
    \/ SignalFromCacheCreate \/ SignalFromCacheGet
    \/ SignalCcCreateStdout \/ SignalCcCreateStderr
    \/ SignalCcExecute \/ SignalCcReturn
    \/ SignalCcUnlinkStdout \/ SignalCcMergeStderr \/ SignalCcUnlinkStderr
    \/ SignalExit \/ SignalFailed
    \/ SignalHandler \/ SignalHandlerKill \/ SignalHandlerCleanUp
    \/ SignalHandlerWait \/ SignalHandlerEnd

SpecSignal == SignalInit /\ [][SignalNext]_vars

\* C10: when SIGTERM has ended the invocation, no child is running and the
\* temporary directory holds no file that the invocation created.
Cex_C10_NothingLeft ==
    (g_pc = "killed" /\ g_signum = "SIGTERM")
        => (g_child # "running" /\ g_tmp = {})

\* The part of C10 that is about the child: no signal ends the invocation
\* while its child runs.
SignalNoOrphan == g_pc = "killed" => g_child = "none"

\* SIGTERM during the compilation: the pending files are gone, those of
\* to_cache are still there.
SignalLeftBehind ==
    /\ g_pc = "killed" /\ g_signum = "SIGTERM"
    /\ g_tmp = {"to_cache.tmp_stdout", "to_cache.tmp_stderr"}


(***************************************************************************)
(* The order of the handler's steps                                        *)
(***************************************************************************)

\* The calls signal_handler made after it reset the signal's action.
HandlerCalls == [i \in 1..(Len(g_log) - 1) |-> g_log[i + 1].call]

\* The state of the child when the handler made the call.
ChildAtCall(call) == (CHOOSE e \in {g_log[i] : i \in 1..Len(g_log)} : e.call = call).child

HandlerCalled(call) == \E i \in 1..Len(g_log) : g_log[i].call = call

\* C11 as stated: the handler forwards the signal to a running child, waits
\* for the child, removes the registered temp files and re-raises the
\* signal, in this order.
Cex_C11_HandlerOrder ==
    g_pc = "killed"
        => HandlerCalls = (IF HandlerCalled("kill") THEN <<"kill">> ELSE <<>>)
                            \o (IF g_compiler_pid # 0 THEN <<"waitpid">> ELSE <<>>)
                            \o <<"unlink", "raise">>

\* C11: on SIGINT, SIGTERM, SIGHUP or SIGQUIT the handler (1) sends the
\* signal to the child only when the signal is SIGTERM and the child still
\* runs, (2) removes the registered temp files, (3) waits for the child when
\* there is one, (4) re-raises the signal, in this order.
Thm_C11_HandlerOrder ==
    g_pc = "killed"
        => /\ HandlerCalls = (IF HandlerCalled("kill") THEN <<"kill">> ELSE <<>>)
                                \o <<"unlink">>
                                \o (IF g_compiler_pid # 0 THEN <<"waitpid">> ELSE <<>>)
                                \o <<"raise">>
           /\ HandlerCalled("kill")
                 => g_signum = "SIGTERM" /\ ChildAtCall("kill") = "running"
           /\ (~HandlerCalled("kill") /\ g_signum = "SIGTERM")
                 => ChildAtCall("unlink") # "running"

Wit_C11_HandlerOrder ==
    /\ g_pc = "killed"
    /\ g_signum = "SIGTERM"
    /\ HandlerCalls = <<"kill", "unlink", "waitpid", "raise">>
    /\ Len(g_pending) = 3


(***************************************************************************)
(* -E                                                                      *)
(***************************************************************************)

\* The last run's argument processing reached a -E.
LastRunReachedDashE ==
    /\ Len(u_out) >= 1
    /\ "dash_E" \in u_dev
    /\ "disable" \notin u_dev

\* The last run counted preprocessing once, ran nothing, looked nothing up
\* and wrote nothing.
LastRunNotCached ==
    /\ u_out[Len(u_out)].stats = <<"preprocessing">>
    /\ u_out[Len(u_out)].lookups = <<>>
    /\ u_out[Len(u_out)].cpp_runs = 0
    /\ u_out[Len(u_out)].cc_runs = 0
    /\ u_cache = u_before

\* C12 as stated: a -E that argument processing reaches counts
\* preprocessing, and the real compiler is exec'ed on the original
\* arguments; no manifest or result is looked up or written.
Cex_C12_DashE ==
    LastRunReachedDashE
        => /\ LastRunNotCached
           /\ u_out[Len(u_out)].how = "exec"
           /\ u_out[Len(u_out)].argv = RunFallbackArgv

\* C12: a -E that argument processing reaches counts preprocessing once; no
\* manifest or result is looked up or written; the real compiler is exec'ed
\* on the original arguments (without those starting with --ccache-, behind
\* prefix_command) when every word of prefix_command names an executable,
\* and the run ends in a fatal error when one does not.
Thm_C12_DashE ==
    LastRunReachedDashE
        => /\ LastRunNotCached
           /\ IF "prefix_missing" \notin u_dev
              THEN /\ u_out[Len(u_out)].how = "exec"
                   /\ u_out[Len(u_out)].argv = RunFallbackArgv
              ELSE u_out[Len(u_out)].how = "fatal"

Wit_C12_DashE ==
    /\ LastRunReachedDashE
    /\ Len(u_out) = 2
    /\ u_out[2].how = "exec"
    /\ u_out[2].stats = <<"preprocessing">>
    /\ u_out[2].argv = <<"/usr/bin/gcc", "-DX", "-E", "-c", "a.c", "-o", "a.o">>


(***************************************************************************)
(* A changed source file                                                   *)
(***************************************************************************)

\* The manifest path of the first run.
FirstManifestPath ==
    manifest_name([u_fs EXCEPT ![InputFile].content =
                                  IF "source_time_macro" \in u_dev THEN 4 ELSE 1])

\* The number of result entries and of file infos in a manifest file, 0 for
\* a file that is not there.
ManifestSize(file) ==
    IF ~file.exists THEN [results |-> 0, file_infos |-> 0]
    ELSE [results |-> Len(read_manifest(file.bytes).results),
          file_infos |-> Len(read_manifest(file.bytes).file_infos)]

\* A cached compile, a change of the file at path, and a second run of the
\* same invocation.
RecompiledAfterEdit(path) ==
    /\ RunCacheable /\ RunDirectModeStays /\ "include_mtime_new" \notin u_dev
    /\ Len(u_out) = 2
    /\ u_edited
    /\ u_fs[path].content = 2
    /\ u_out[1].at < u_fs[path].mtime /\ u_fs[path].mtime < u_out[2].at

\* The second run missed and compiled.
SecondRunCompiles ==
    /\ u_out[2].stats = <<"to_cache">>
    /\ u_out[2].cpp_runs = 1
    /\ u_out[2].cc_runs = 1

\* The second run added one result entry and one file info to the manifest
\* at path.
ManifestGrew(path) ==
    /\ ManifestSize(u_cache.manifests[path]).results
          = ManifestSize(u_before.manifests[path]).results + 1
    /\ ManifestSize(u_cache.manifests[path]).file_infos
          >= ManifestSize(u_before.manifests[path]).file_infos + 1

\* C13 as stated: after a cached compile, a change of the source file makes
\* the next run miss, compile, and add one result entry and at least one
\* file info to the manifest file of the first run.
Cex_C13_SameManifest ==
    RecompiledAfterEdit(InputFile)
        => /\ SecondRunCompiles
           /\ u_before.manifests[FirstManifestPath].exists
           /\ ManifestGrew(FirstManifestPath)

\* C13: after a cached compile, a change of the source file makes the next
\* run miss and compile; the manifest file of the first run stays as it
\* was, and the run writes a manifest file under another name, that of the
\* changed source, with one result entry.  A change of an include file
\* makes the next run miss, compile, and add one result entry and one file
\* info to the manifest file of the first run.
Thm_C13_SameManifest ==
    /\ RecompiledAfterEdit(InputFile)
          => /\ SecondRunCompiles
             /\ u_before.manifests[FirstManifestPath].exists
             /\ u_cache.manifests[FirstManifestPath]
                   = u_before.manifests[FirstManifestPath]
             /\ manifest_name(u_fs) # FirstManifestPath
             /\ ~u_before.manifests[manifest_name(u_fs)].exists
             /\ ManifestSize(u_cache.manifests[manifest_name(u_fs)])
                   = [results |-> 1, file_infos |-> 1]
    /\ RecompiledAfterEdit(PathA)
          => /\ SecondRunCompiles
             /\ manifest_name(u_fs) = FirstManifestPath
             /\ ManifestSize(u_before.manifests[FirstManifestPath])
                   = [results |-> 1, file_infos |-> 1]
             /\ ManifestSize(u_cache.manifests[FirstManifestPath])
                   = [results |-> 2, file_infos |-> 2]

Wit_C13_SameManifest ==
    /\ RecompiledAfterEdit(InputFile)
    /\ u_out[1].stats = <<"to_cache">>
    /\ u_out[2].stats = <<"to_cache">>
    /\ Cardinality({p \in RunManifestPaths : u_cache.manifests[p].exists}) = 2


(***************************************************************************)
(* A time macro in the source file                                         *)
(***************************************************************************)

\* The last run hashed the source file in direct mode and found a time
\* macro that the sloppiness does not cover.
LastRunFoundTime ==
    /\ Len(u_out) >= 1
    /\ u_dev \cap {"disable", "dash_E", "no_direct_mode"} = {}
    /\ HasTimeMacro(u_fs[InputFile].content)
    /\ "sloppy_time_macros" \notin u_dev

LastRunCounted(stat) ==
    \E i \in 1..Len(u_out[Len(u_out)].stats) : u_out[Len(u_out)].stats[i] = stat

LastRunLookedUp(what) ==
    \E i \in 1..Len(u_out[Len(u_out)].lookups) : u_out[Len(u_out)].lookups[i] = what

MaxHashOpts == 2

HashCompilers == {"gcc", "clang", "cc"}
HashCwd == "/home/a/p"
HashLibDirs == {"/lib1", "/lib2"}
HashMapValues == {"/home/a=/x", "/home/a=/y", "/other=/x"}
HashDepNames == {"a.d", "b.d", "b.o", "/dev/null"}
PrefixMapFlags == {"-fdebug-prefix-map=", "-ffile-prefix-map=", "-fmacro-prefix-map="}

\* An option is the sequence of its arguments: <<"-L", dir>> or <<"-L" \o dir>>.
LinkOptions(dirs) ==
    {<<"-L", d>> : d \in dirs} \cup {<<"-L" \o d>> : d \in dirs}
        \cup {<<"-Wl,-rpath," \o d>> : d \in dirs}

PrefixMapOptions(values) == {<<f \o v>> : f \in PrefixMapFlags, v \in values}

DepFileOptions(names) ==
    {<<"-MF", n>> : n \in names} \cup {<<"-MF" \o n>> : n \in names}
        \cup {<<"-Wp,-MD," \o n>> : n \in names}
        \cup {<<"-Wp,-MMD," \o n>> : n \in names}

\* The options of the first invocation.
HashOptions ==
    {<<"-g">>, <<"-MD">>, <<"-DX">>}
        \cup {<<"-L", "/lib1">>} \cup PrefixMapOptions({"/home/a=/x"})
        \cup {o \in DepFileOptions({"a.d"}) : ~str_startswith(o[1], "-Wp,-MMD,")}

RECURSIVE HashOptionLists(_)
HashOptionLists(n) ==
    IF n = 0 THEN {<<>>}
    ELSE HashOptionLists(n - 1)
            \cup {Append(l, o) : l \in {k \in HashOptionLists(n - 1) : Len(k) = n - 1},
                                 o \in HashOptions}

\* The arguments of an invocation, after find_compiler.
HashArgs(inv) ==
    <<"/usr/bin/" \o inv.compiler>> \o Flatten(inv.opts) \o <<"-c", "a.c", "-o", "a.o">>

str_endswith(str, suffix) ==
    Len(str) >= Len(suffix)
        /\ SubSeq(str, Len(str) - Len(suffix) + 1, Len(str)) = suffix

\* strchr(str, c): the first position of the character in the string, 0 for NULL.
strchr(str, c) ==
    IF strstr(str, c)
    THEN CHOOSE i \in 1..Len(str) :
            /\ SubSeq(str, i, i) = c
            /\ \A j \in 1..(i - 1) : SubSeq(str, j, j) # c
    ELSE 0

\* get_extension: from the last dot of the last path component on.
get_extension(path) ==
    LET dots == {i \in 1..Len(path) :
                    /\ SubSeq(path, i, i) = "."
                    /\ \A j \in i..Len(path) : SubSeq(path, j, j) # "/"}
    IN  IF dots = {} THEN ""
        ELSE SubSeq(path, CHOOSE i \in dots : \A j \in dots : j <= i, Len(path))

remove_extension(path) == SubSeq(path, 1, Len(path) - Len(get_extension(path)))

\* The compiler option table, as far as the options here go.
compopt_takes_arg(arg) == arg \in {"-L", "-MF", "-MQ", "-MT"}

\* compopt_short(compopt_affects_cpp, arg): the first two characters are an
\* option that affects the preprocessor's output.
compopt_short_affects_cpp(arg) ==
    Len(arg) >= 2 /\ SubSeq(arg, 1, 2) \in {"-D", "-I", "-U"}

hash_string(hash, str) == hash \o str

hash_delimiter(hash, type) == hash \o "<" \o type \o ">"

\* What cc_process_args starts with: common_args holds argv[0].
ProcessStart(argv) ==
    [common_args |-> <<argv[1]>>, cpp_args |-> <<>>, dep_args |-> <<>>,
     input_file |-> "", output_obj |-> "", output_dep |-> "",
     generating_dependencies |-> FALSE, dependency_filename_specified |-> FALSE,
     generating_debuginfo |-> FALSE, debug_prefix_maps |-> <<>>]

\* One round of the loop of cc_process_args over argv[i]: the state after it
\* and the index of the next argument. Every option here has its argument.
cc_process_arg(argv, i, p) ==
    LET arg == argv[i]
    IN  IF arg = "-c" THEN [p |-> p, next |-> i + 1]
        ELSE IF arg = "-o"
        THEN [p |-> [p EXCEPT !.output_obj = argv[i + 1]], next |-> i + 2]
        ELSE IF str_startswith(arg, "-fdebug-prefix-map=")
                \/ str_startswith(arg, "-ffile-prefix-map=")
        THEN [p |-> [p EXCEPT !.debug_prefix_maps =
                                 Append(@, SubSeq(arg, (IF SubSeq(arg, 3, 3) = "f"
                                                        THEN Len("-ffile-prefix-map=")
                                                        ELSE Len("-fdebug-prefix-map=")) + 1,
                                                  Len(arg))),
                              !.common_args = Append(@, arg)],
              next |-> i + 1]
        ELSE IF str_startswith(arg, "-g")
        THEN [p |-> [p EXCEPT !.common_args = Append(@, arg),
                              !.generating_debuginfo =
                                 IF str_startswith(arg, "-gdwarf") THEN TRUE
                                 ELSE IF str_startswith(arg, "-gz") THEN @
                                 ELSE ~str_endswith(arg, "0")],
              next |-> i + 1]
        ELSE IF arg \in {"-MD", "-MMD"}
        THEN [p |-> [p EXCEPT !.generating_dependencies = TRUE,
                              !.dep_args = Append(@, arg)],
              next |-> i + 1]
        ELSE IF str_startswith(arg, "-MF")
        THEN IF Len(arg) = Len("-MF")
             THEN [p |-> [p EXCEPT !.dependency_filename_specified = TRUE,
                                   !.output_dep = argv[i + 1],
                                   !.dep_args = @ \o <<"-MF", argv[i + 1]>>],
                   next |-> i + 2]
             ELSE [p |-> [p EXCEPT !.dependency_filename_specified = TRUE,
                                   !.output_dep = SubSeq(arg, Len("-MF") + 1, Len(arg)),
                                   !.dep_args = Append(@, arg)],
                   next |-> i + 1]
        ELSE IF str_startswith(arg, "-Wp,-MD,")
                /\ ~strstr(SubSeq(arg, Len("-Wp,-MD,") + 1, Len(arg)), ",")
        THEN [p |-> [p EXCEPT !.generating_dependencies = TRUE,
                              !.dependency_filename_specified = TRUE,
                              !.output_dep = SubSeq(arg, Len("-Wp,-MD,") + 1, Len(arg)),
                              !.dep_args = Append(@, arg)],
              next |-> i + 1]
        ELSE IF str_startswith(arg, "-Wp,-MMD,")
                /\ ~strstr(SubSeq(arg, Len("-Wp,-MMD,") + 1, Len(arg)), ",")
        THEN [p |-> [p EXCEPT !.generating_dependencies = TRUE,
                              !.dependency_filename_specified = TRUE,
                              !.output_dep = SubSeq(arg, Len("-Wp,-MMD,") + 1, Len(arg)),
                              !.dep_args = Append(@, arg)],
              next |-> i + 1]
        ELSE IF compopt_takes_arg(arg)
        THEN [p |-> [p EXCEPT !.common_args = @ \o <<arg, argv[i + 1]>>], next |-> i + 2]
        ELSE IF str_startswith(arg, "-")
        THEN [p |-> IF compopt_short_affects_cpp(arg)
                    THEN [p EXCEPT !.cpp_args = Append(@, arg)]
                    ELSE [p EXCEPT !.common_args = Append(@, arg)],
              next |-> i + 1]
        ELSE [p |-> [p EXCEPT !.input_file = arg], next |-> i + 1]

RECURSIVE cc_process_arg_loop(_, _, _)
cc_process_arg_loop(argv, i, p) ==
    IF i > Len(argv) THEN p
    ELSE LET r == cc_process_arg(argv, i, p) IN cc_process_arg_loop(argv, r.next, r.p)

\* The end of cc_process_args: the default dependency file and target, and
\* the arguments handed to the preprocessor (and to the hash).
cc_process_args_end(p) ==
    LET named == IF p.generating_dependencies /\ ~p.dependency_filename_specified
                 THEN [p EXCEPT !.dep_args = @ \o <<"-MF", remove_extension(p.output_obj) \o ".d">>,
                                !.output_dep = remove_extension(p.output_obj) \o ".d"]
                 ELSE p
        dep_args == IF named.generating_dependencies
                       /\ get_extension(named.output_dep) # ".o"
                    THEN named.dep_args \o <<"-MQ", named.output_obj>>
                    ELSE named.dep_args
    IN  [preprocessor_args |-> named.common_args \o named.cpp_args \o dep_args,
         output_dep |-> named.output_dep,
         generating_dependencies |-> named.generating_dependencies,
         generating_debuginfo |-> named.generating_debuginfo,
         debug_prefix_maps |-> named.debug_prefix_maps,
         guessed_compiler |-> guess_compiler(named.common_args[1])]

\* cc_process_args: the arguments to hash and the globals the hashing reads.
cc_process_args_hashed(argv) ==
    cc_process_args_end(cc_process_arg_loop(argv, 2, ProcessStart(argv)))

\* The cwd after one debug prefix map: a map without "=" does nothing.
relocate_cwd(cwd, map) ==
    LET sep == strchr(map, "=")
        old_path == SubSeq(map, 1, sep - 1)
        new_path == SubSeq(map, sep + 1, Len(map))
    IN  IF sep # 0 /\ str_startswith(cwd, old_path)
        THEN new_path \o SubSeq(cwd, Len(old_path) + 1, Len(cwd))
        ELSE cwd

RECURSIVE relocated_cwd(_, _, _)
relocated_cwd(cwd, maps, i) ==
    IF i > Len(maps) THEN cwd ELSE relocated_cwd(relocate_cwd(cwd, maps[i]), maps, i + 1)

\* hash_common_info: what does not depend on the arguments here (the hash
\* prefix, the extension, the compiler's size and mtime, the locale) is the
\* string "common"; then the compiler's base name and, with debug info and
\* hash_dir, the relocated cwd.
hash_common_info(g, hash_dir) ==
    LET named == hash_string(hash_delimiter("common", "cc_name"),
                             x_basename(g.preprocessor_args[1]))
    IN  IF g.generating_debuginfo /\ hash_dir
        THEN hash_string(hash_delimiter(named, "cwd"),
                         relocated_cwd(HashCwd, g.debug_prefix_maps, 1))
        ELSE named

\* A clang test that takes no compiler for clang.
is_clang_never(guessed_compiler) == FALSE

is_clang(guessed_compiler) == guessed_compiler \in {"clang", "unknown"}

\* A prefix map hashed as any other argument is.
hash_prefix_map_whole(hash, arg, flag) == hash_string(hash_delimiter(hash, "arg"), arg)

\* Of a prefix map option the flag is hashed, the mapping is not.
hash_prefix_map(hash, arg, flag) == hash_string(hash_delimiter(hash, "arg"), flag)

\* A -MF whose file name is never skipped.
dependency_name_kept(arg, output_dep) == FALSE

\* Is the argument after this -MF the dependency file's name, to be skipped?
dependency_name_skipped(arg, output_dep) ==
    output_dep # "/dev/null" /\ Len(arg) = Len("-MF")

\* One round of the loop of calculate_result_name over args->argv[i]: the
\* hash after it and the index of the next argument.
hash_arg(hash, args, i, g, direct_mode) ==
    LET arg == args[i]
    IN  IF i < Len(args) /\ arg = "-L" /\ ~is_clang(g.guessed_compiler)
        THEN [hash |-> hash, next |-> i + 2]
        ELSE IF str_startswith(arg, "-L") /\ ~is_clang(g.guessed_compiler)
        THEN [hash |-> hash, next |-> i + 1]
        ELSE IF str_startswith(arg, "-Wl,") /\ ~is_clang(g.guessed_compiler)
        THEN [hash |-> hash, next |-> i + 1]
        ELSE IF \E f \in PrefixMapFlags : str_startswith(arg, f)
        THEN [hash |-> hash_prefix_map(hash, arg,
                          CHOOSE f \in PrefixMapFlags : str_startswith(arg, f)),
              next |-> i + 1]
        ELSE IF ~direct_mode /\ compopt_short_affects_cpp(arg)
        THEN [hash |-> hash, next |-> i + 1]
        ELSE IF g.generating_dependencies /\ str_startswith(arg, "-Wp,-MD,")
                /\ ~strstr(SubSeq(arg, Len("-Wp,-MD,") + 1, Len(arg)), ",")
        THEN [hash |-> hash_string(hash, SubSeq(arg, 1, Len("-Wp,-MD,"))), next |-> i + 1]
        ELSE IF g.generating_dependencies /\ str_startswith(arg, "-Wp,-MMD,")
                /\ ~strstr(SubSeq(arg, Len("-Wp,-MMD,") + 1, Len(arg)), ",")
        THEN [hash |-> hash_string(hash, SubSeq(arg, 1, Len("-Wp,-MMD,"))), next |-> i + 1]
        ELSE IF g.generating_dependencies /\ ~str_startswith(arg, "-Wp,")
                /\ str_startswith(arg, "-MF")
        THEN [hash |-> hash_string(hash_delimiter(hash, "arg"), SubSeq(arg, 1, Len("-MF"))),
              next |-> IF dependency_name_skipped(arg, g.output_dep) THEN i + 2 ELSE i + 1]
        ELSE IF i + 1 <= Len(args) /\ compopt_takes_arg(arg)
        THEN [hash |-> hash_string(hash_delimiter(
                          hash_string(hash_delimiter(hash, "arg"), arg), "arg"), args[i + 1]),
              next |-> i + 2]
        ELSE [hash |-> hash_string(hash_delimiter(hash, "arg"), arg), next |-> i + 1]

RECURSIVE hash_args(_, _, _, _, _)
hash_args(hash, args, i, g, direct_mode) ==
    IF i > Len(args) THEN hash
    ELSE LET r == hash_arg(hash, args, i, g, direct_mode)
         IN  hash_args(r.hash, args, r.next, g, direct_mode)

\* calculate_result_name up to the point where the key is taken: in direct
\* mode the manifest key, after the input file's name and content; else the
\* result key, after the preprocessor's output, which here is that of a.c
\* whatever the options.
calculate_result_name(hash, g, direct_mode) ==
    LET versioned == IF direct_mode
                     THEN hash_string(hash_delimiter(hash, "manifest version"), "v")
                     ELSE hash
        argued == hash_args(versioned, g.preprocessor_args, 2, g, direct_mode)
        nulled == IF g.generating_dependencies /\ g.output_dep = "/dev/null"
                  THEN hash_delimiter(argued, "/dev/null dependency file")
                  ELSE argued
    IN  IF direct_mode
        THEN hash_string(hash_delimiter(hash_string(hash_delimiter(
                 nulled, "inputfile"), "a.c"), "sourcecode"), "a.c")
        ELSE hash_string(hash_delimiter(nulled, "cpp"), "a.i")

\* The two keys of an invocation, with what cc_process_args found.
HashKeys(inv, g) ==
    [manifest |-> calculate_result_name(hash_common_info(g, inv.hash_dir), g, TRUE),
     result |-> calculate_result_name(hash_common_info(g, inv.hash_dir), g, FALSE),
     generating_dependencies |-> g.generating_dependencies,
     generating_debuginfo |-> g.generating_debuginfo,
     output_dep |-> g.output_dep,
     guessed_compiler |-> g.guessed_compiler,
     cwd |-> relocated_cwd(HashCwd, g.debug_prefix_maps, 1)]

IsLinkOption(o) == o \in LinkOptions(HashLibDirs)

\* The flag of a prefix map option, "" for any other option.
PrefixMapFlag(o) ==
    IF \E f \in PrefixMapFlags : str_startswith(o[1], f)
    THEN CHOOSE f \in PrefixMapFlags : str_startswith(o[1], f)
    ELSE ""

\* The form in which an option names the dependency file, "" if it names none.
DepFileForm(o) ==
    IF Len(o) = 2 /\ o[1] = "-MF" THEN "-MF " 
    ELSE IF str_startswith(o[1], "-MF") THEN "-MF"
    ELSE IF str_startswith(o[1], "-Wp,-MD,") THEN "-Wp,-MD,"
    ELSE IF str_startswith(o[1], "-Wp,-MMD,") THEN "-Wp,-MMD,"
    ELSE ""

Replaced(opts, i, o) == [opts EXCEPT ![i] = o]

Removed(opts, i) == SubSeq(opts, 1, i - 1) \o SubSeq(opts, i + 1, Len(opts))

Inserted(opts, i, o) == SubSeq(opts, 1, i) \o <<o>> \o SubSeq(opts, i + 1, Len(opts))

HashInit ==
    /\ h_pc = "start"
    /\ h_a \in [compiler : HashCompilers, opts : HashOptionLists(MaxHashOpts),
                hash_dir : BOOLEAN]
    /\ h_b = h_a
    /\ h_keys = <<>>
    /\ HashRestIdle

\* The second invocation has one -L or -Wl, option more, less or other.
HashVaryLink ==
    /\ h_pc = "start"
    /\ \E i \in 0..Len(h_a.opts), o \in LinkOptions(HashLibDirs) :
          \/ /\ i = 0
             /\ h_b' = [h_a EXCEPT !.opts = Inserted(@, i, o)]
          \/ /\ i > 0 /\ IsLinkOption(h_a.opts[i])
             /\ \/ h_b' = [h_a EXCEPT !.opts = Replaced(@, i, o)]
                \/ h_b' = [h_a EXCEPT !.opts = Removed(@, i)]
    /\ h_b' # h_a
    /\ h_pc' = "varied"
    /\ UNCHANGED <<h_a, h_keys>>
    /\ UNCHANGED hashRest

\* The second invocation has another mapping in one prefix map option.
HashVaryPrefixMap ==
    /\ h_pc = "start"
    /\ \E i \in 1..Len(h_a.opts), v \in HashMapValues :
          /\ PrefixMapFlag(h_a.opts[i]) # ""
          /\ h_b' = [h_a EXCEPT !.opts = Replaced(@, i, <<PrefixMapFlag(h_a.opts[i]) \o v>>)]
    /\ h_b' # h_a
    /\ h_pc' = "varied"
    /\ UNCHANGED <<h_a, h_keys>>
    /\ UNCHANGED hashRest

\* The second invocation names another dependency file in one option.
HashVaryDepFile ==
    /\ h_pc = "start"
    /\ \E i \in 1..Len(h_a.opts), o \in DepFileOptions(HashDepNames) :
          /\ DepFileForm(h_a.opts[i]) # ""
          /\ DepFileForm(o) = DepFileForm(h_a.opts[i])
          /\ h_b' = [h_a EXCEPT !.opts = Replaced(@, i, o)]
    /\ h_b' # h_a
    /\ h_pc' = "varied"
    /\ UNCHANGED <<h_a, h_keys>>
    /\ UNCHANGED hashRest

\* Both invocations go through cc_process_args and calculate_result_name.
HashCalculate ==
    /\ h_pc = "varied"
    /\ h_keys' = [a |-> HashKeys(h_a, cc_process_args_hashed(HashArgs(h_a))),
                  b |-> HashKeys(h_b, cc_process_args_hashed(HashArgs(h_b)))]
    /\ h_pc' = "hashed"
    /\ UNCHANGED <<h_a, h_b>>
    /\ UNCHANGED hashRest

HashNext == HashVaryLink \/ HashVaryPrefixMap \/ HashVaryDepFile \/ HashCalculate

SpecHash == HashInit /\ [][HashNext]_vars

Hashed == h_pc = "hashed"

SameKeys == h_keys.a.manifest = h_keys.b.manifest /\ h_keys.a.result = h_keys.b.result

\* The two invocations differ, and only in their -L and -Wl, options.
OnlyLinkOptionsDiffer ==
    /\ h_a # h_b
    /\ h_a.compiler = h_b.compiler /\ h_a.hash_dir = h_b.hash_dir
    /\ SelectSeq(h_a.opts, LAMBDA o : ~IsLinkOption(o))
          = SelectSeq(h_b.opts, LAMBDA o : ~IsLinkOption(o))

\* C15 as stated: for a compiler that is not clang, two invocations that
\* differ only in their -L and -Wl, options have the same manifest key and
\* the same result key.
Cex_C15_LinkOptions ==
    (Hashed /\ OnlyLinkOptionsDiffer /\ ~strstr(h_a.compiler, "clang")) => SameKeys

\* C15: for a compiler that guess_compiler takes for gcc, nvcc or pump, two
\* invocations that differ only in their -L and -Wl, options have the same
\* manifest key and the same result key; for a compiler it takes for clang
\* or does not know, these options are hashed like any other.
Thm_C15_LinkOptions ==
    (Hashed /\ OnlyLinkOptionsDiffer)
        => IF h_keys.a.guessed_compiler \in {"gcc", "nvcc", "pump"} THEN SameKeys
           ELSE h_keys.a.manifest # h_keys.b.manifest /\ h_keys.a.result # h_keys.b.result

Wit_C15_LinkOptions ==
    /\ Hashed /\ OnlyLinkOptionsDiffer /\ SameKeys
    /\ h_a.compiler = "gcc"
    /\ h_a.opts = <<<<"-L", "/lib1">>, <<"-g">>>>
    /\ h_b.opts = <<<<"-Wl,-rpath,/lib2">>, <<"-g">>>>


\* The two invocations differ, and only in the mappings of their
\* -fdebug-prefix-map=, -ffile-prefix-map= and -fmacro-prefix-map= options.
OnlyPrefixMapValuesDiffer ==
    /\ h_a # h_b
    /\ h_a.compiler = h_b.compiler /\ h_a.hash_dir = h_b.hash_dir
    /\ Len(h_a.opts) = Len(h_b.opts)
    /\ \A i \in 1..Len(h_a.opts) :
          \/ h_a.opts[i] = h_b.opts[i]
          \/ /\ PrefixMapFlag(h_a.opts[i]) # ""
             /\ PrefixMapFlag(h_a.opts[i]) = PrefixMapFlag(h_b.opts[i])

\* Is the cwd part of the keys of both invocations?
CwdHashed == h_keys.a.generating_debuginfo /\ h_a.hash_dir

\* C16 as stated: two invocations that differ only in the mapping of a
\* prefix map option have the same manifest key and the same result key.
Cex_C16_PrefixMapValue ==
    (Hashed /\ OnlyPrefixMapValuesDiffer) => SameKeys

\* C16: of a prefix map option calculate_result_name hashes the flag only,
\* so that two invocations that differ only in the mappings have the same
\* manifest key and the same result key, unless debug info is generated
\* with hash_dir on and the mappings of -fdebug-prefix-map= and
\* -ffile-prefix-map= rewrite the cwd to different paths: then the hashed
\* cwd differs and so do both keys.
Thm_C16_PrefixMapValue ==
    (Hashed /\ OnlyPrefixMapValuesDiffer)
        => IF CwdHashed /\ h_keys.a.cwd # h_keys.b.cwd
           THEN h_keys.a.manifest # h_keys.b.manifest /\ h_keys.a.result # h_keys.b.result
           ELSE SameKeys

Wit_C16_PrefixMapValue ==
    /\ Hashed /\ OnlyPrefixMapValuesDiffer /\ SameKeys
    /\ CwdHashed
    /\ h_a.opts = <<<<"-g">>, <<"-fmacro-prefix-map=/home/a=/x">>>>
    /\ h_b.opts = <<<<"-g">>, <<"-fmacro-prefix-map=/home/a=/y">>>>


\* The two invocations differ, and only in the names of dependency files:
\* the argument of -MF, or the file of -MF<file>, -Wp,-MD,<file> or
\* -Wp,-MMD,<file>.
OnlyDepFileNamesDiffer ==
    /\ h_a # h_b
    /\ h_a.compiler = h_b.compiler /\ h_a.hash_dir = h_b.hash_dir
    /\ Len(h_a.opts) = Len(h_b.opts)
    /\ \A i \in 1..Len(h_a.opts) :
          \/ h_a.opts[i] = h_b.opts[i]
          \/ /\ DepFileForm(h_a.opts[i]) # ""
             /\ DepFileForm(h_a.opts[i]) = DepFileForm(h_b.opts[i])

\* Does cc_process_args add -MQ <object file> for this invocation?
TargetAdded(k) == k.generating_dependencies /\ get_extension(k.output_dep) # ".o"

\* C17 as stated: two invocations that differ only in the name of a
\* dependency file have the same manifest key and the same result key.
Cex_C17_DepFileName ==
    (Hashed /\ OnlyDepFileNamesDiffer) => SameKeys

\* C17: when dependencies are generated (-MD, -MMD, -Wp,-MD, or -Wp,-MMD,)
\* and the dependency file is /dev/null in neither invocation, the names
\* of dependency files are not hashed: two invocations that differ only in
\* them have the same keys, provided that the dependency file has the
\* extension .o in both or in neither (else -MQ <object file> is added to
\* the arguments of one only). With /dev/null as the dependency file of
\* one invocation only, the keys differ.
Thm_C17_DepFileName ==
    (Hashed /\ OnlyDepFileNamesDiffer /\ h_keys.a.generating_dependencies)
        => /\ (/\ h_keys.a.output_dep # "/dev/null" /\ h_keys.b.output_dep # "/dev/null"
               /\ TargetAdded(h_keys.a) = TargetAdded(h_keys.b))
                  => SameKeys
           /\ (h_keys.a.output_dep = "/dev/null") # (h_keys.b.output_dep = "/dev/null")
                  => h_keys.a.manifest # h_keys.b.manifest
                        /\ h_keys.a.result # h_keys.b.result

Wit_C17_DepFileName ==
    /\ Hashed /\ OnlyDepFileNamesDiffer /\ SameKeys
    /\ h_a.opts = <<<<"-MD">>, <<"-MF", "a.d">>>>
    /\ h_b.opts = <<<<"-MD">>, <<"-MF", "b.d">>>>
    /\ h_keys.a.output_dep = "a.d" /\ h_keys.b.output_dep = "b.d"


(***************************************************************************)
(* SpecRel: one call of make_relative_path, on a file system without       *)
(* symbolic links, where x_realpath of an existing path is the path.       *)
(***************************************************************************)

RelBaseDirs == {"", "/home/a", "/home/a/p", "/usr"}
RelCwds == {"/home/a/p", "/home/a", "/home/ab"}
RelPaths == {"/home/a/p/x.h", "/home/a/inc/y.h", "/home/ab/z.h", "/home/a/p/new/gen.h", "/usr/include/s.h", "inc/y.h"}

\* The directories that exist, and the files that do unless removed.
RelDirs == {"/", "/home", "/home/a", "/home/a/p", "/home/a/inc", "/home/ab", "/usr", "/usr/include"}
RelFiles == {"/home/a/p/x.h", "/home/a/inc/y.h", "/home/ab/z.h", "/usr/include/s.h"}

\* The components of a path.
RECURSIVE Components(_)
Components(path) ==
    IF path = "" THEN <<>>
    ELSE IF strchr(path, "/") = 0 THEN <<path>>
    ELSE IF strchr(path, "/") = 1 THEN Components(SubSeq(path, 2, Len(path)))
    ELSE <<SubSeq(path, 1, strchr(path, "/") - 1)>>
            \o Components(SubSeq(path, strchr(path, "/") + 1, Len(path)))

RECURSIVE JoinPath(_)
JoinPath(cs) ==
    IF cs = <<>> THEN ""
    ELSE IF Len(cs) = 1 THEN cs[1]
    ELSE cs[1] \o "/" \o JoinPath(Tail(cs))

\* x_dirname of an absolute path.
x_dirname(path) ==
    IF Len(Components(path)) <= 1 THEN "/"
    ELSE "/" \o JoinPath(SubSeq(Components(path), 1, Len(Components(path)) - 1))

\* get_relative_path(from, to): up from the directory from to the common
\* directory, then down to the path; a relative path is returned as it is.
get_relative_path(from, to) ==
    LET cf == Components(from)
        ct == Components(to)
        common == {n \in 0..Len(cf) : n <= Len(ct) /\ SubSeq(cf, 1, n) = SubSeq(ct, 1, n)}
        n == CHOOSE k \in common : \A j \in common : j <= k
        rel == [i \in 1..(Len(cf) - n) |-> ".."] \o SubSeq(ct, n + 1, Len(ct))
    IN  IF to = "" \/ ~str_startswith(to, "/") THEN to
        ELSE IF rel = <<>> THEN "."
        ELSE JoinPath(rel)

\* The nearest existing directory above a path that does not exist.
RECURSIVE nearest_dir(_, _)
nearest_dir(dir, exists) ==
    IF dir \in exists THEN dir ELSE nearest_dir(x_dirname(dir), exists)

\* The test make_relative_path makes of the path against base_dir.
under_base_dir(path, base_dir) == str_startswith(path, base_dir)

make_relative_path(base_dir, cwd, exists, path) ==
    IF base_dir = "" \/ ~under_base_dir(path, base_dir) THEN path
    ELSE IF path \notin exists
    THEN LET dir == nearest_dir(x_dirname(path), exists)
             dir_len == IF SubSeq(path, Len(dir) + 1, Len(dir) + 1) = "/"
                        THEN Len(dir) + 1 ELSE Len(dir)
         IN  get_relative_path(cwd, dir) \o "/" \o SubSeq(path, dir_len + 1, Len(path))
    ELSE get_relative_path(cwd, path)

RelInit ==
    /\ m_pc = "start"
    /\ m_in \in [base_dir : RelBaseDirs, cwd : RelCwds, path : RelPaths,
                 exists : {RelDirs \cup RelFiles, RelDirs}]
    /\ m_out = ""
    /\ RelRestIdle

RelMakeRelative ==
    /\ m_pc = "start"
    /\ m_out' = make_relative_path(m_in.base_dir, m_in.cwd, m_in.exists, m_in.path)
    /\ m_pc' = "done"
    /\ UNCHANGED m_in
    /\ UNCHANGED relRest

RelNext == RelMakeRelative

SpecRel == RelInit /\ [][RelNext]_vars

\* Is the path inside the directory base_dir (or that directory itself)?
UnderBaseDir(path, base_dir) ==
    /\ str_startswith(path, "/")
    /\ Len(Components(base_dir)) <= Len(Components(path))
    /\ SubSeq(Components(path), 1, Len(Components(base_dir))) = Components(base_dir)

\* C18: make_relative_path returns its argument unchanged whenever base_dir
\* is empty or the path is not under base_dir; a path it rewrites is under
\* base_dir.
Cex_C18_NotUnderBaseDir ==
    m_pc = "done"
        => /\ (m_in.base_dir = "" \/ ~UnderBaseDir(m_in.path, m_in.base_dir))
                 => m_out = m_in.path
           /\ m_out # m_in.path => UnderBaseDir(m_in.path, m_in.base_dir)


(***************************************************************************)
(* SpecDump: ccache_main_options on a command line of --dump-manifest and  *)
(* --dump-result options.                                                  *)
(***************************************************************************)

\* The number of options of a command line.
MaxDumpOptions == 2

DumpManifest ==
    [files |-> <<PathA>>,
     file_infos |-> <<[index |-> 0, digest |-> Digest(1), fsize |-> SizeOf(1),
                       mtime |-> 1, ctime |-> 1]>>,
     results |-> <<[file_info_indexes |-> <<0>>, name |-> Digest(2)]>>]

\* The files an option may name: kind tells what was done to the file.
DumpManifestFiles ==
    LET b == write_manifest(DumpManifest)
    IN  {[kind |-> "missing", file |-> NoManifestFile],
         [kind |-> "valid", file |-> [exists |-> TRUE, bytes |-> b]],
         [kind |-> "truncated", file |-> [exists |-> TRUE, bytes |-> SubSeq(b, 1, Len(b) - 1)]],
         [kind |-> "corrupt",
          file |-> [exists |-> TRUE, bytes |-> [b EXCEPT ![Len(b)] = (@ + 1) % 256]]]}

\* Of a result file it is known whether it exists and whether it is intact.
DumpResultFiles ==
    {[kind |-> "missing", file |-> [exists |-> FALSE, intact |-> FALSE]],
     [kind |-> "valid", file |-> [exists |-> TRUE, intact |-> TRUE]],
     [kind |-> "corrupt", file |-> [exists |-> TRUE, intact |-> FALSE]]}

DumpOptions ==
    {[option |-> "--dump-manifest", arg |-> f] : f \in DumpManifestFiles}
        \cup {[option |-> "--dump-result", arg |-> f] : f \in DumpResultFiles}

\* manifest_dump: false when read_manifest gives no manifest.
manifest_dump(file) ==
    IF ~file.exists THEN FALSE ELSE read_manifest(file.bytes) # NULL

\* result_dump: false when the result file cannot be read or is corrupt.
result_dump(file) == file.exists /\ file.intact

DumpInit ==
    /\ p_pc = "options"
    /\ p_argv \in {s \in SeqsUpTo(DumpOptions, MaxDumpOptions) : Len(s) >= 1}
    /\ p_i = 1
    /\ p_out = <<>>
    /\ p_status = 0
    /\ DumpRestIdle

\* case DUMP_MANIFEST: what manifest_dump returns is not looked at.
DumpManifestOption ==
    /\ p_pc = "options" /\ p_i <= Len(p_argv)
    /\ p_argv[p_i].option = "--dump-manifest"
    /\ p_out' = Append(p_out, IF manifest_dump(p_argv[p_i].arg.file)
                              THEN "dumped" ELSE "Error")
    /\ p_i' = p_i + 1
    /\ UNCHANGED <<p_argv, p_pc, p_status>>
    /\ UNCHANGED dumpRest

\* case DUMP_RESULT
DumpResultOption ==
    /\ p_pc = "options" /\ p_i <= Len(p_argv)
    /\ p_argv[p_i].option = "--dump-result"
    /\ LET ok == result_dump(p_argv[p_i].arg.file)
       IN  /\ p_out' = Append(p_out, IF ok THEN "dumped" ELSE "Error")
           /\ IF ~ok
              THEN p_pc' = "exited" /\ p_status' = 1 /\ p_i' = p_i
              ELSE p_pc' = p_pc /\ p_status' = p_status /\ p_i' = p_i + 1
    /\ UNCHANGED p_argv
    /\ UNCHANGED dumpRest

\* getopt_long returns -1: return 0.
DumpReturn ==
    /\ p_pc = "options" /\ p_i > Len(p_argv)
    /\ p_pc' = "exited"
    /\ p_status' = 0
    /\ UNCHANGED <<p_argv, p_i, p_out>>
    /\ UNCHANGED dumpRest

DumpNext == DumpManifestOption \/ DumpResultOption \/ DumpReturn

SpecDump == DumpInit /\ [][DumpNext]_vars

\* C19: a --dump-manifest or --dump-result whose file cannot be read or is
\* corrupt makes ccache exit with status 1; the status is 0 only when every
\* dump succeeded.
Cex_C19_DumpStatus ==
    p_pc = "exited"
        => /\ (\E i \in 1..Len(p_out) : p_argv[i].arg.kind # "valid") => p_status = 1
           /\ p_status = 0 => \A i \in 1..Len(p_argv) : p_argv[i].arg.kind = "valid"


(***************************************************************************)
(* SpecLock: lockfile_acquire("test", staleness_limit) where test.lock     *)
(* and the locks on it may be held by another owner, as in the test        *)
(* lock_breaking. Link k is the symlink named "test" followed by k times   *)
(* ".lock"; the call at depth k of the stack acquires link k.              *)
(***************************************************************************)

\* How many links there are: at most MaxLockDepth - 1 are held at the start.
MaxLockDepth == 3

\* How long to wait before breaking a stale lock, in microseconds.
lock_staleness_limit == 2000000

NoLink == ""
Mine == "host:pid:time"

LockFrame == [slept |-> 0, to_sleep |-> 1000, initial_content |-> NoLink]

\* A lock that is never taken for stale.
lock_is_never_stale(content, initial_content) == FALSE

\* Past the staleness limit: is the lock still the one first seen?
lock_is_stale(content, initial_content) == content = initial_content

LockInit ==
    /\ l_pc = "running"
    /\ l_limit \in {1000, lock_staleness_limit}
    /\ l_links \in {f \in [1..MaxLockDepth -> {NoLink, "foo"}] : f[MaxLockDepth] = NoLink}
    /\ l_stack = <<LockFrame>>
    /\ l_result = FALSE
    /\ l_owner = [held |-> l_links, progress |-> FALSE]
    /\ LockRestIdle

LockDepth == Len(l_stack)
LockTop == l_stack[LockDepth]

\* What the call on top has seen first in its link.
LockInitial == IF LockTop.initial_content = NoLink THEN l_links[LockDepth]
               ELSE LockTop.initial_content

\* A call of lockfile_acquire returns true: to the caller of the outermost
\* call, or to the call that wanted to break a lock, which releases that
\* lock and the lock on it and starts over.
LockReturnedTrue(links) ==
    IF LockDepth = 1
    THEN /\ l_pc' = "done"
         /\ l_result' = TRUE
         /\ l_links' = links
         /\ l_stack' = <<>>
    ELSE /\ l_stack' = Append(SubSeq(l_stack, 1, LockDepth - 2),
                              [l_stack[LockDepth - 1] EXCEPT !.slept = 0,
                                                             !.to_sleep = 1000])
         /\ l_links' = [links EXCEPT ![LockDepth - 1] = NoLink, ![LockDepth] = NoLink]
         /\ UNCHANGED <<l_pc, l_result>>

\* symlink succeeds, or fails although the link is ours already.
LockAcquire ==
    /\ l_pc = "running"
    /\ l_links[LockDepth] \in {NoLink, Mine}
    /\ LockReturnedTrue([l_links EXCEPT ![LockDepth] = Mine])
    /\ UNCHANGED <<l_limit, l_owner>>
    /\ UNCHANGED lockRest

\* The link is another owner's and the staleness limit is not passed.
LockSleep ==
    /\ l_pc = "running"
    /\ l_links[LockDepth] \notin {NoLink, Mine}
    /\ LockTop.slept <= l_limit
    /\ l_stack' = [l_stack EXCEPT ![LockDepth] =
                      [slept |-> @.slept + @.to_sleep, to_sleep |-> @.to_sleep * 2,
                       initial_content |-> LockInitial]]
    /\ UNCHANGED <<l_pc, l_limit, l_links, l_result, l_owner>>
    /\ UNCHANGED lockRest

\* Past the limit with the link unchanged: acquire the lock on the lock.
LockBreak ==
    /\ l_pc = "running"
    /\ l_links[LockDepth] \notin {NoLink, Mine}
    /\ LockTop.slept > l_limit
    /\ lock_is_stale(l_links[LockDepth], LockInitial)
    /\ LockDepth < MaxLockDepth
    /\ l_stack' = Append([l_stack EXCEPT ![LockDepth].initial_content = LockInitial],
                         LockFrame)
    /\ UNCHANGED <<l_pc, l_limit, l_links, l_result, l_owner>>
    /\ UNCHANGED lockRest

\* Past the limit with the link changed: every call in progress gives up.
LockGiveUp ==
    /\ l_pc = "running"
    /\ l_links[LockDepth] \notin {NoLink, Mine}
    /\ LockTop.slept > l_limit
    /\ ~lock_is_stale(l_links[LockDepth], LockInitial)
    /\ l_pc' = "done"
    /\ l_result' = FALSE
    /\ l_stack' = <<>>
    /\ UNCHANGED <<l_limit, l_links, l_owner>>
    /\ UNCHANGED lockRest

\* The other owner makes progress: it releases its lock or takes it anew.
LockOwnerProgress ==
    /\ l_pc = "running"
    /\ ~l_owner.progress
    /\ l_links[1] = "foo"
    /\ \E c \in {NoLink, "bar"} : l_links' = [l_links EXCEPT ![1] = c]
    /\ l_owner' = [l_owner EXCEPT !.progress = TRUE]
    /\ UNCHANGED <<l_pc, l_limit, l_stack, l_result>>
    /\ UNCHANGED lockRest

LockNext == LockAcquire \/ LockSleep \/ LockBreak \/ LockGiveUp \/ LockOwnerProgress

SpecLock == LockInit /\ [][LockNext]_vars

\* C20: when test.lock is held by another owner that makes no progress,
\* lockfile_acquire starts breaking the lock only after having slept longer
\* than the staleness limit, and it returns true with test.lock naming the
\* acquirer and without test.lock.lock.
Thm_C20_LockBreaking ==
    (l_owner.held[1] = "foo" /\ ~l_owner.progress)
        => /\ (l_pc = "running" /\ LockDepth > 1) => l_stack[1].slept > l_limit
           /\ l_pc = "done" => /\ l_result
                               /\ l_links[1] = Mine
                               /\ l_links[2] = NoLink

Wit_C20_LockBreaking ==
    /\ l_pc = "done" /\ l_result
    /\ l_limit = lock_staleness_limit
    /\ l_owner = [held |-> [k \in 1..MaxLockDepth |-> IF k < MaxLockDepth THEN "foo" ELSE NoLink],
                  progress |-> FALSE]
    /\ l_links[1] = Mine /\ l_links[2] = NoLink


(***************************************************************************)
(* SpecTemporal: check_for_temporal_macros on the buffers of                *)
(* TEST(check_for_temporal_macros) and on short buffers around one macro.  *)
(***************************************************************************)

\* The terminating byte of a C string literal: sizeof counts it, and it is
\* not a character of an identifier.
NUL == "~"

IdentChars ==
    {"a", "b", "c", "d", "e", "f", "g", "h", "i", "j", "k", "l", "m",
     "n", "o", "p", "q", "r", "s", "t", "u", "v", "w", "x", "y", "z",
     "A", "B", "C", "D", "E", "F", "G", "H", "I", "J", "K", "L", "M",
     "N", "O", "P", "Q", "R", "S", "T", "U", "V", "W", "X", "Y", "Z",
     "0", "1", "2", "3", "4", "5", "6", "7", "8", "9", "_"}

time_start == "__TIME__\nint a;\n"
time_middle == "#define a __TIME__\nint a;\n"
time_end == "#define a __TIME__"
date_start == "__DATE__\nint ab;\n"
date_middle == "#define ab __DATE__\nint ab;\n"
date_end == "#define ab __DATE__"

no_temporal ==
    "#define ab a__DATE__\n" \o "#define ab  __DATE__a\n"
        \o "#define ab A__DATE__\n" \o "#define ab  __DATE__A\n"
        \o "#define ab 0__DATE__\n" \o "#define ab  __DATE__0\n"
        \o "#define ab _ _DATE__\n" \o "#define ab _ _DATE__\n"
        \o "#define ab __ DATE__\n" \o "#define ab __D ATE__\n"
        \o "#define ab __DA TE__\n" \o "#define ab __DAT E__\n"
        \o "#define ab __DATE __\n" \o "#define ab __DATE_ _\n"
        \o "#define ab _ _TIME__\n" \o "#define ab __ TIME__\n"
        \o "#define ab __T IME__\n" \o "#define ab __TI ME__\n"
        \o "#define ab __TIM E__\n" \o "#define ab __TIME __\n"
        \o "#define ab __TIME_ _\n"

\* sizeof of a string literal.
SizeOf_(text) == Len(text) + 1

\* The buffer of the call check_for_temporal_macros(text + k, sizeof(text) - k).
BufferFrom(text, k) == SubSeq(text \o NUL, k + 1, SizeOf_(text))

\* CHECK(check_for_temporal_macros(text + k, ...)) for each k of offsets.
Checks(text, offsets) == {[buf |-> BufferFrom(text, k), expect |-> "found"] : k \in offsets}

\* CHECK(!check_for_temporal_macros(text + k, ...)) for each k of offsets.
ChecksNot(text, offsets) == {[buf |-> BufferFrom(text, k), expect |-> "none"] : k \in offsets}

TemporalChecks ==
    Checks(time_start, {0}) \cup ChecksNot(time_start, {1})
        \cup Checks(time_middle, 0..7)
        \cup Checks(time_end, {0, SizeOf_(time_end) - 9})
        \cup ChecksNot(time_end, {SizeOf_(time_end) - 8})
        \cup Checks(date_start, {0}) \cup ChecksNot(date_start, {1})
        \cup Checks(date_middle, 0..7)
        \cup Checks(date_end, {0, SizeOf_(date_end) - 9})
        \cup ChecksNot(date_end, {SizeOf_(date_end) - 8})
        \cup ChecksNot(no_temporal, 0..7)

TemporalMacros == {"__TIME__", "__DATE__", "__TIMESTAMP__"}

\* Buffers of one macro with at most one character before and after it, with
\* and without the terminating byte.
TemporalAround ==
    {[buf |-> b \o w \o a \o z, expect |-> "untested"] :
        b \in {"", " ", "a", "_", "9", "("}, w \in TemporalMacros,
        a \in {"", " ", "Z", "_", "0", ";"}, z \in {"", NUL}}

TemporalInputs == TemporalChecks \cup TemporalAround

char_at(str, pos) == SubSeq(str, pos, pos)

\* The flag of a macro.
found_flag(macro) ==
    CASE macro = "__TIME__" -> "FOUND_TIME"
      [] macro = "__DATE__" -> "FOUND_DATE"
      [] OTHER -> "FOUND_TIMESTAMP"

\* A scanner that takes a macro inside a longer identifier for the macro.
token_boundary_ignored(str, pos, macro) == TRUE

\* The characters before and after the macro at pos are not characters of an
\* identifier; the start and the end of the buffer are boundaries.
token_boundary(str, pos, macro) ==
    /\ pos = 1 \/ char_at(str, pos - 1) \notin IdentChars
    /\ pos + Len(macro) > Len(str) \/ char_at(str, pos + Len(macro)) \notin IdentChars

\* The flags of the macros that stand at pos.
temporal_macros_at(str, pos) ==
    {found_flag(w) : w \in {w \in TemporalMacros :
        /\ pos + Len(w) - 1 <= Len(str)
        /\ SubSeq(str, pos, pos + Len(w) - 1) = w
        /\ token_boundary(str, pos, w)}}

TemporalInit ==
    /\ t_pc = "scan"
    /\ t_in \in TemporalInputs
    /\ t_i = 1
    /\ t_flags = {}
    /\ TemporalRestIdle

\* One position of the scan.
TemporalScan ==
    /\ t_pc = "scan" /\ t_i <= Len(t_in.buf)
    /\ t_flags' = t_flags \cup temporal_macros_at(t_in.buf, t_i)
    /\ t_i' = t_i + 1
    /\ UNCHANGED <<t_pc, t_in>>
    /\ UNCHANGED temporalRest

\* The end of the buffer: the flags are returned.
TemporalReturn ==
    /\ t_pc = "scan" /\ t_i > Len(t_in.buf)
    /\ t_pc' = "returned"
    /\ UNCHANGED <<t_in, t_i, t_flags>>
    /\ UNCHANGED temporalRest

TemporalNext == TemporalScan \/ TemporalReturn

SpecTemporal == TemporalInit /\ [][TemporalNext]_vars

\* macro stands in str as a whole token.
WholeToken(str, macro) ==
    \E pos \in 1..Len(str) :
        /\ pos + Len(macro) - 1 <= Len(str)
        /\ SubSeq(str, pos, pos + Len(macro) - 1) = macro
        /\ (pos > 1 => char_at(str, pos - 1) \notin IdentChars)
        /\ (pos + Len(macro) <= Len(str) => char_at(str, pos + Len(macro)) \notin IdentChars)

\* C21: check_for_temporal_macros reports __TIME__ or __DATE__ exactly when
\* the buffer holds it as a whole token: the characters right before and
\* after it are not in [A-Za-z0-9_], the start and the end of the buffer
\* count as boundaries, and every CHECK of the unit test comes out as the
\* test expects.
Thm_C21_TemporalTokens ==
    t_pc = "returned"
        => /\ "FOUND_TIME" \in t_flags <=> WholeToken(t_in.buf, "__TIME__")
           /\ "FOUND_DATE" \in t_flags <=> WholeToken(t_in.buf, "__DATE__")
           /\ t_in.expect = "found" => t_flags # {}
           /\ t_in.expect = "none" => t_flags = {}

\* The scan of the buffer of no_temporal and the scan of a buffer that ends
\* with __TIME__ have returned.
Wit_C21_TemporalTokens ==
    /\ t_pc = "returned"
    /\ \/ t_in.buf = BufferFrom(no_temporal, 0) /\ t_flags = {}
       \/ t_in.buf = BufferFrom(time_end, SizeOf_(time_end) - 9) /\ t_flags = {"FOUND_TIME"}


(***************************************************************************)
(* SpecGet: manifest_get on a manifest that several manifest_put calls     *)
(* wrote, with the mtime of the manifest file.                             *)
(***************************************************************************)

\* The number of manifest_put calls and file changes before the lookups.
MaxGetOps == 2

\* The result name of a compilation that included the files S: a digest of
\* what the preprocessor saw.
GetResultKey(fs, S) ==
    Digest(100 + fs[PathA].content * 16
               + (IF PathB \in S THEN fs[PathB].content ELSE 0))

\* manifest_get calls update_mtime(manifest_path) when it has a name to
\* return.
manifest_get_touches(name) == name # NO_DIGEST

GetInit ==
    /\ q_fs = QuietFs
    /\ q_now = 1
    /\ q_file = NoManifestFile
    /\ q_mtime = 0
    /\ q_ret = NoGet
    /\ q_ops = 0
    /\ GetRestIdle

\* The clock advances by one second.
GetTick ==
    /\ q_now <= MaxGetOps
    /\ q_now' = q_now + 1
    /\ q_ret' = NoGet
    /\ UNCHANGED <<q_fs, q_file, q_mtime, q_ops>>
    /\ UNCHANGED getRest

\* Some program rewrites a.h, with the mtime set to now or kept.
GetEdit ==
    /\ q_ops < MaxGetOps
    /\ \E c \in Contents \ {q_fs[PathA].content}, m \in {q_fs[PathA].mtime, q_now} :
          q_fs' = [q_fs EXCEPT ![PathA] = [exists |-> TRUE, content |-> c,
                                           mtime |-> m, ctime |-> q_now]]
    /\ q_ops' = q_ops + 1
    /\ q_ret' = NoGet
    /\ UNCHANGED <<q_now, q_file, q_mtime>>
    /\ UNCHANGED getRest

\* manifest_put of an invocation that included the files S: the manifest
\* file is replaced by a new one.
GetPut ==
    /\ q_ops < MaxGetOps
    /\ \E S \in StoreIncludeSets :
          LET included == [p \in S |-> Digest(q_fs[p].content)] IN
          \E order \in Orders(S) :
             q_file' = [exists |-> TRUE,
                        bytes |-> write_manifest(
                           manifest_put_manifest(q_file, GetResultKey(q_fs, S),
                                                 included, order, q_fs, q_now))]
    /\ q_mtime' = q_now
    /\ q_ops' = q_ops + 1
    /\ q_ret' = NoGet
    /\ UNCHANGED <<q_fs, q_now>>
    /\ UNCHANGED getRest

\* manifest_get(config, manifest_path), the update_mtime at its end included.
GetLookup ==
    /\ ~q_ret.fresh
    /\ \E ctx \in StoreCtxs :
          q_ret' = [fresh |-> TRUE, ctx |-> ctx,
                    name |-> manifest_get(ctx, q_file, q_fs)]
    /\ q_mtime' = IF manifest_get_touches(q_ret'.name) THEN q_now ELSE q_mtime
    /\ UNCHANGED <<q_fs, q_now, q_file, q_ops>>
    /\ UNCHANGED getRest

GetNext == GetTick \/ GetEdit \/ GetPut \/ GetLookup

SpecGet == GetInit /\ [][GetNext]_vars

\* The entries of mf that verify against fs.
Verifying(ctx, mf, fs) ==
    IF mf = NULL THEN {}
    ELSE {i \in 1..Len(mf.results) : verify_result(ctx, mf, mf.results[i], fs)}

\* name is the name of the last entry of mf that verifies; it is NO_DIGEST
\* when none does.
NewestVerifying(ctx, mf, fs, name) ==
    LET ok == Verifying(ctx, mf, fs)
    IN  IF ok = {} THEN name = NO_DIGEST
        ELSE \E i \in ok : /\ name = mf.results[i].name
                           /\ \A j \in (i + 1)..Len(mf.results) : j \notin ok

GetManifest == IF q_file.exists THEN read_manifest(q_file.bytes) ELSE NULL

\* C22: manifest_get returns the result key of the most recently appended
\* entry that verifies against the current file system, and nothing when no
\* entry verifies; the mtime of the manifest file changes in a lookup only
\* when the lookup returns a key.
Thm_C22_NewestFirst ==
    [][(q_ret'.fresh /\ ~q_ret.fresh)
          => /\ NewestVerifying(q_ret'.ctx, GetManifest, q_fs, q_ret'.name)
             /\ q_mtime' # q_mtime => q_ret'.name # NO_DIGEST]_vars

\* A lookup on a manifest with two verifying entries of different names
\* returned the name of the later one, and the lookup was made after the
\* second in which the manifest was written.
Wit_C22_NewestFirst ==
    /\ q_ret.fresh /\ q_ret.name # NO_DIGEST
    /\ q_mtime = q_now
    /\ \E i, j \in Verifying(q_ret.ctx, GetManifest, q_fs) :
          /\ i < j
          /\ GetManifest.results[i].name # GetManifest.results[j].name
          /\ q_ret.name = GetManifest.results[j].name
    /\ q_now > 1


(***************************************************************************)
(* SpecServe: invocations of                                               *)
(*     ccache gcc -MD -c a.c -o a.o                                       *)
(* on one cache, each under its own configuration, while results are       *)
(* cleaned up and a.h is touched.  Every invocation is made in the second  *)
(* QuietToc.                                                               *)
(***************************************************************************)

MaxServeRuns == 2

\* What an invocation may differ in from the plain one.
ServeDeviations ==
    {"read_only", "no_direct_mode", "recache", "base_dir", "cc_fails",
     "depend_mode", "result_put_fails"}

\* At most two deviations at a time.
ServeDeviationSets == {{a, b} : a, b \in ServeDeviations} \cup {{}}

ServeInit ==
    /\ v_fs = [p \in RunFiles |-> [exists |-> TRUE, content |-> 1,
                                   mtime |-> 0, ctime |-> 0]]
    /\ v_cache = EmptyCache
    /\ v_out = <<>>
    /\ v_n = 0
    /\ ServeRestIdle

\* One invocation, from main() to its exit or exec.
ServeInvoke ==
    /\ v_n < MaxServeRuns
    /\ \E D \in ServeDeviationSets :
          \E out \in {ccache(D \cup {"dash_MD"}, v_fs, v_cache, QuietToc)} :
             /\ v_out' = <<[dev |-> D, before |-> v_cache, out |-> out]>>
             /\ v_cache' = out.cache
    /\ v_n' = v_n + 1
    /\ UNCHANGED v_fs
    /\ UNCHANGED serveRest

\* A clean-up of the cache removes a result file.
ServeCleanup ==
    /\ v_n < MaxServeRuns
    /\ \E name \in v_cache.results :
          v_cache' = [v_cache EXCEPT !.results = @ \ {name}]
    /\ UNCHANGED <<v_fs, v_out, v_n>>
    /\ UNCHANGED serveRest

\* a.h is touched in the second of the invocations.
ServeTouch ==
    /\ v_n < MaxServeRuns
    /\ v_fs[PathA].mtime < QuietToc
    /\ v_fs' = [v_fs EXCEPT ![PathA].mtime = QuietToc, ![PathA].ctime = QuietToc]
    /\ UNCHANGED <<v_cache, v_out, v_n>>
    /\ UNCHANGED serveRest

ServeNext == ServeInvoke \/ ServeCleanup \/ ServeTouch

SpecServe == ServeInit /\ [][ServeNext]_vars

\* The last invocation.
Last == v_out[1]

ServeManifestPath == manifest_name(v_fs)

\* The manifest of the invocations before and after the last one.
ManifestBefore == Last.before.manifests[ServeManifestPath]
ManifestAfter == Last.out.cache.manifests[ServeManifestPath]

\* The positions of an operation in what the last invocation did.
OpsAt(op) == {i \in 1..Len(Last.out.ops) : Last.out.ops[i].op = op}

\* The last invocation was served from the cache.
Served == Last.out.stats \in {<<"cache_hit_direct">>, <<"cache_hit_cpp">>}

\* C23: with read_only set an invocation creates, replaces and deletes no
\* manifest file and no result file, whatever its lookups find, and when it
\* is not served from the cache it ends in the exec of the real compiler.
Cex_C23_ReadOnly ==
    (v_out # <<>> /\ "read_only" \in Last.dev)
        => /\ Last.out.cache = Last.before
           /\ ~Served => Last.out.how = "exec"

\* The preprocessor of the last invocation ran and gave a result name.
CppComputed ==
    /\ Last.out.cpp_runs = 1
    /\ Last.out.stats \notin {<<"preprocessor">>, <<"unsupported_directive">>}

\* The direct lookup of the last invocation got a name from the manifest,
\* the result was not served, and the preprocessor gave another name.
StaleFound ==
    /\ v_out # <<>>
    /\ Last.out.from_manifest # NO_DIGEST
    /\ CppComputed
    /\ Last.out.result_name # Last.out.from_manifest

\* The result entries of a manifest file.
ResultsOf(file) == IF file.exists THEN read_manifest(file.bytes).results ELSE <<>>

\* C24: when the direct lookup got a result key from the manifest, the
\* result was not served and the preprocessor path computes another key, the
\* manifest file is removed before the preprocessor-mode lookup goes on (no
\* result is fetched or stored and no compiler is run before), and the
\* invocation is marked to put the new key into the manifest: what is left
\* of the manifest afterwards holds at most the new key.
Thm_C24_StaleManifest ==
    StaleFound
        => /\ \E i \in OpsAt("manifest_unlink") :
                 /\ Last.out.ops[i].name = Last.out.from_manifest
                 /\ \A j \in 1..(i - 1) : Last.out.ops[j].op = "cpp"
           /\ Last.out.put_result_in_manifest
           /\ Last.out.stats = <<"cache_hit_cpp">>
                 => ~Last.out.at_lookup.manifests[ServeManifestPath].exists
           /\ \A i \in 1..Len(ResultsOf(ManifestAfter)) :
                 /\ i = 1
                 /\ ResultsOf(ManifestAfter)[i].name = Last.out.result_name

\* A stale manifest was found and removed, and the invocation wrote a new
\* one with the key of the preprocessor path.
Wit_C24_StaleManifest ==
    /\ StaleFound
    /\ ManifestBefore.exists
    /\ OpsAt("manifest_put") # {}
    /\ Len(ResultsOf(ManifestAfter)) = 1

\* The last invocation was a hit of the preprocessor mode.
CppHit == v_out # <<>> /\ Last.out.stats = <<"cache_hit_cpp">>

\* A manifest insert is required: direct mode is still enabled, the cache is
\* not read-only, and the direct lookup found no verifying entry or a result
\* name other than the one of the preprocessor path.
InsertRequired ==
    /\ Last.out.direct_mode
    /\ "read_only" \notin Last.dev
    /\ \/ Last.out.from_manifest = NO_DIGEST
       \/ Last.out.from_manifest # Last.out.result_name

\* The last entry of the manifest names the result of the last invocation
\* and the include file a.h with the digest of its content.
LastEntryIsCurrent(mf) ==
    LET e == mf.results[Len(mf.results)]
    IN  /\ e.name = Last.out.result_name
        /\ Len(e.file_info_indexes) = 1
        /\ \A k \in 1..Len(e.file_info_indexes) :
              LET fi == mf.file_infos[e.file_info_indexes[k] + 1]
              IN  /\ mf.files[fi.index + 1] = PathA
                  /\ fi.digest = Digest(v_fs[PathA].content)

\* C25: on a hit of the preprocessor mode the manifest gets one more entry,
\* with the result key and the current include set, exactly when a manifest
\* insert is required (direct mode still enabled, cache not read-only, and the
\* direct lookup found no verifying entry or another result key); in every
\* other case the hit leaves the manifest as the lookup found it.
Thm_C25_InsertOnCppHit ==
    CppHit
        => IF InsertRequired
           THEN /\ ManifestAfter.exists
                /\ Len(ResultsOf(ManifestAfter))
                      = Len(ResultsOf(Last.out.at_lookup.manifests[ServeManifestPath])) + 1
                /\ LastEntryIsCurrent(read_manifest(ManifestAfter.bytes))
           ELSE Last.out.cache.manifests = Last.out.at_lookup.manifests

\* A hit of the preprocessor mode put its result into a manifest that did
\* not exist before.
Wit_C25_InsertOnCppHit ==
    /\ CppHit
    /\ InsertRequired
    /\ OpsAt("manifest_put") # {}
    /\ ~ManifestBefore.exists

\* The direct lookup of the last invocation got a name from the manifest
\* and the preprocessor gave the same name.
SameFound ==
    /\ v_out # <<>>
    /\ Last.out.from_manifest # NO_DIGEST
    /\ CppComputed
    /\ Last.out.result_name = Last.out.from_manifest

\* C26: when the direct lookup found result key K in the manifest and the
\* key of the preprocessor path is K too, the invocation appends no entry to
\* that manifest, also when the result for K had to be rebuilt by running
\* the compiler.
Cex_C26_NotReAdded ==
    SameFound
        => /\ OpsAt("manifest_put") = {}
           /\ Len(ResultsOf(ManifestAfter)) = Len(ResultsOf(ManifestBefore))

\* C27: whenever an invocation adds a manifest entry naming result key K,
\* the result for K is in the cache: the same invocation stored it with a
\* result_put that succeeded, or fetched it, before it updated the manifest.
Thm_C27_ResultBeforeManifest ==
    v_out # <<>>
        => \A i \in OpsAt("manifest_put") :
              /\ Last.out.ops[i].name \in Last.out.cache.results
              /\ \E j \in 1..(i - 1) :
                    /\ Last.out.ops[j].op \in {"result_put", "result_get"}
                    /\ Last.out.ops[j].name = Last.out.ops[i].name

\* The invocation ran the compiler, stored the result and then added it to
\* the manifest.
Wit_C27_ResultBeforeManifest ==
    /\ v_out # <<>>
    /\ OpsAt("result_put") # {}
    /\ \E i \in OpsAt("manifest_put") :
          /\ Last.out.ops[i].name = Last.out.result_name
          /\ Last.out.result_name \notin Last.before.results

\* Depend mode stayed enabled in the last invocation.
DependRun == v_out # <<>> /\ Last.out.depend_mode

\* C28: in an invocation in which depend mode stays enabled the preprocessor
\* is never run; when the direct lookup serves nothing (and the cache is not
\* read-only) the real compiler is run, before anything else, with the
\* original arguments, and the result key is derived only after that, from
\* the dependency file, and only when the compiler exited with status 0; the
\* result is stored under that key.
Thm_C28_DependMode ==
    DependRun
        => /\ Last.out.cpp_runs = 0 /\ OpsAt("cpp") = {}
           /\ (~Served /\ "read_only" \notin Last.dev) => Last.out.cc_runs = 1
           /\ Last.out.cc_runs = 1
                 => /\ Last.out.ops[1].op = "cc"
                    /\ Last.out.cc_argv = find_compiler(RunArgv(Last.dev \cup {"dash_MD"}))
           /\ \A i \in OpsAt("result_name_from_depfile") :
                 /\ i > 1
                 /\ Last.out.cc_status = 0
                 /\ Last.out.ops[i].name = RunDependResultName(v_fs)
           /\ Last.out.cc_status # 0 => OpsAt("result_name_from_depfile") = {}
           /\ \A i \in OpsAt("result_put") :
                 \E j \in 1..(i - 1) :
                    /\ Last.out.ops[j].op = "result_name_from_depfile"
                    /\ Last.out.ops[j].name = Last.out.ops[i].name

\* A depend-mode invocation ran the compiler with -MD and stored the result
\* under the key of the dependency file.
Wit_C28_DependMode ==
    /\ DependRun
    /\ \E i \in 1..Len(Last.out.cc_argv) : Last.out.cc_argv[i] = "-MD"
    /\ OpsAt("result_name_from_depfile") # {}
    /\ OpsAt("result_put") # {}


(***************************************************************************)
(* SpecLimit: manifest_put on manifests at and beyond the limits.  The     *)
(* manifest file is held as the manifest read_manifest returns for it      *)
(* (NULL when there is no file): the bytes of a manifest with more than    *)
(* 10000 file infos are out of reach.                                      *)
(***************************************************************************)

MaxLimitPuts == 2

\* A manifest of n results, each with its own file infos of the same `per`
\* include files.
LimitManifest(n, per) ==
    [files |-> [k \in 1..per |-> <<104, k>>],
     file_infos |-> [i \in 1..(n * per) |->
                        [index |-> (i - 1) % per,
                         digest |-> Digest((i - 1) \div per),
                         fsize |-> SizeOf(1), mtime |-> (i - 1) \div per,
                         ctime |-> 0]],
     results |-> [r \in 1..n |->
                     [file_info_indexes |-> [j \in 1..per |-> (r - 1) * per + j - 1],
                      name |-> Digest(r)]]]

\* No manifest, a small one, one with exactly MAX_MANIFEST_ENTRIES results,
\* one with one result more, and one with MAX_MANIFEST_ENTRIES results and
\* more than MAX_MANIFEST_FILE_INFO_ENTRIES file infos.
LimitManifests ==
    {NULL, LimitManifest(1, 1),
     LimitManifest(MAX_MANIFEST_ENTRIES, 1),
     LimitManifest(MAX_MANIFEST_ENTRIES + 1, 1),
     LimitManifest(MAX_MANIFEST_ENTRIES,
                   MAX_MANIFEST_FILE_INFO_ENTRIES \div MAX_MANIFEST_ENTRIES + 1)}

LimitInit ==
    /\ w_mf \in LimitManifests
    /\ w_put = <<>>
    /\ w_n = 0
    /\ LimitRestIdle

\* manifest_put(manifest_path, result_name, included_files) of an invocation
\* that saw a.h with content c.
LimitPut ==
    /\ w_n < MaxLimitPuts
    /\ \E S \in StoreIncludeSets, c \in {1, 2} :
          LET fs == [QuietFs EXCEPT ![PathA].content = c]
              included == [p \in S |-> Digest(fs[p].content)]
          IN  \E order \in Orders(S) :
                 /\ w_mf' = add_result_entry(manifest_put_read(w_mf), ResultKey(fs),
                                             included, order, fs, QuietToc)
                 /\ w_put' = <<[read |-> w_mf, name |-> ResultKey(fs),
                                included |-> S, written |-> w_mf']>>
    /\ w_n' = w_n + 1
    /\ UNCHANGED limitRest

LimitNext == LimitPut

SpecLimit == LimitInit /\ [][LimitNext]_vars

\* The manifest the last manifest_put read was valid and within the limits.
WithinLimits(mf) ==
    /\ mf # NULL
    /\ Len(mf.results) <= 100
    /\ Len(mf.file_infos) <= 10000

\* s is the beginning of t.
IsPrefix(s, t) == Len(s) <= Len(t) /\ SubSeq(t, 1, Len(s)) = s

\* The manifest holds one entry, for name, and the files of S only.
OnlyNewEntry(mf, name, S) ==
    /\ Len(mf.results) = 1
    /\ mf.results[1].name = name
    /\ Len(mf.files) = Cardinality(S)
    /\ {mf.files[i] : i \in 1..Len(mf.files)} = S
    /\ Len(mf.file_infos) = Cardinality(S)
    /\ {mf.file_infos[mf.results[1].file_info_indexes[i] + 1].index :
           i \in 1..Len(mf.results[1].file_info_indexes)} = 0..(Cardinality(S) - 1)

\* C29: manifest_put on a valid manifest within the limits keeps every
\* result entry (and the paths and file infos they refer to) unchanged and in
\* order and appends exactly one result entry, the new one, as the last;
\* when the manifest has more than 100 result entries or more than 10000
\* file infos, the written manifest holds only the new entry and the files it
\* refers to.
Thm_C29_AppendOrRestart ==
    w_put # <<>>
        => LET old == w_put[1].read
               new == w_put[1].written
           IN  IF WithinLimits(old)
               THEN /\ Len(new.results) = Len(old.results) + 1
                    /\ IsPrefix(old.results, new.results)
                    /\ IsPrefix(old.files, new.files)
                    /\ IsPrefix(old.file_infos, new.file_infos)
                    /\ new.results[Len(new.results)].name = w_put[1].name
               ELSE old # NULL => OnlyNewEntry(new, w_put[1].name, w_put[1].included)

\* A put made 101 results of 100, and the next put discarded them.
Wit_C29_AppendOrRestart ==
    /\ w_put # <<>>
    /\ w_put[1].read # NULL
    /\ Len(w_put[1].read.results) > 100
    /\ w_n = 2
    /\ Len(w_put[1].written.results) = 1


(***************************************************************************)
(* The shape of the manifests that manifest_put calls build from no file   *)
(* (SpecStore).                                                            *)
(***************************************************************************)

\* No element of the sequence occurs twice.
NoRepeats(seq) == \A i, j \in 1..Len(seq) : seq[i] = seq[j] => i = j

WellFormed(mf) ==
    /\ \A i \in 1..Len(mf.file_infos) : mf.file_infos[i].index < Len(mf.files)
    /\ \A r \in 1..Len(mf.results) :
          \A k \in 1..Len(mf.results[r].file_info_indexes) :
             mf.results[r].file_info_indexes[k] < Len(mf.file_infos)
    /\ NoRepeats(mf.files)
    /\ NoRepeats(mf.file_infos)

\* Two result entries of the manifest refer to one file info.
SharesFileInfo(mf) ==
    \E r1, r2 \in 1..Len(mf.results) :
       /\ r1 < r2
       /\ \E k1 \in 1..Len(mf.results[r1].file_info_indexes) :
             \E k2 \in 1..Len(mf.results[r2].file_info_indexes) :
                mf.results[r1].file_info_indexes[k1]
                    = mf.results[r2].file_info_indexes[k2]

\* C30: after any sequence of manifest_put calls starting from no file,
\* every file info's path index is below the number of paths, every index of
\* a result entry is below the number of file infos, no path occurs twice in
\* the path table and no (index, digest, fsize, mtime, ctime) tuple occurs
\* twice among the file infos.
Thm_C30_WellFormed ==
    s_file.exists => WellFormed(read_manifest(s_file.bytes))

\* A second manifest_put found the file info of an include file present and
\* referred to it.
Wit_C30_WellFormed ==
    /\ s_puts = 2
    /\ s_file.exists
    /\ SharesFileInfo(read_manifest(s_file.bytes))


(***************************************************************************)
(* SpecDirect: invocations that lose direct mode.  Every invocation has    *)
(* its own deviations; a.c and a.h may hold __TIME__ and a.h may be as new *)
(* as the compilation.                                                     *)
(***************************************************************************)

MaxDirectRuns == 2

DirectDeviations ==
    {"no_direct_mode", "dash_Xpreprocessor", "dash_Wp", "sloppy_time_macros",
     "recache", "depend_mode", "include_is_dir", "include_not_regular",
     "sloppy_include_mtime", "sloppy_include_ctime"}

DirectDeviationSets == {{d} : d \in DirectDeviations} \cup {{}}

\* a.c and a.h, each with or without a time macro; a.h last written before
\* the compilation ({}), touched in its second ({"ctime"}) or written in its
\* second ({"mtime", "ctime"}).
DirectFiles ==
    {[p \in RunFiles |->
         [exists |-> TRUE,
          content |-> IF p \in T THEN 4 ELSE 1,
          mtime |-> IF p = PathA /\ "mtime" \in new THEN QuietToc ELSE 0,
          ctime |-> IF p = PathA /\ "ctime" \in new THEN QuietToc ELSE 0]] :
     T \in SUBSET RunFiles, new \in {{}, {"ctime"}, {"mtime", "ctime"}}}

DirectInit ==
    /\ y_fs \in DirectFiles
    /\ y_cache = EmptyCache
    /\ y_out = <<>>
    /\ y_n = 0
    /\ DirectRestIdle

\* One invocation, from main() to its exit or exec.
DirectInvoke ==
    /\ y_n < MaxDirectRuns
    /\ \E D \in DirectDeviationSets :
          \E out \in {ccache(D \cup {"dash_MD"}, y_fs, y_cache, QuietToc)} :
             /\ y_out' = <<[dev |-> D, before |-> y_cache, out |-> out]>>
             /\ y_cache' = out.cache
    /\ y_n' = y_n + 1
    /\ UNCHANGED y_fs
    /\ UNCHANGED directRest

DirectNext == DirectInvoke

SpecDirect == DirectInit /\ [][DirectNext]_vars

\* The steps of the invocation named op.
DirectOps(o, op) == {i \in 1..Len(o.ops) : o.ops[i].op = op}

\* Direct mode was off for the invocation, or for a part of it.
DirectModeWentOff(r) == "no_direct_mode" \in r.dev \/ r.out.direct_off # <<>>

\* C31: within one invocation direct mode is only switched off, never back
\* on, and an invocation in which direct mode went off writes no manifest:
\* it makes no manifest_put, and every manifest file is as it was before or
\* removed.
Thm_C31_DirectModeOnlyOff ==
    (y_out # <<>> /\ DirectModeWentOff(y_out[1]))
        => /\ ~y_out[1].out.direct_mode
           /\ Len(y_out[1].out.direct_off) <= 1
           /\ DirectOps(y_out[1].out, "manifest_put") = {}
           /\ \A p \in RunManifestPaths :
                 y_cache.manifests[p]
                     \in {y_out[1].before.manifests[p], NoManifestFile}

\* An invocation found a manifest file, lost direct mode after its first
\* step, and stored a result all the same.
Wit_C31_DirectModeOnlyOff ==
    /\ y_out # <<>>
    /\ \E p \in RunManifestPaths : y_out[1].before.manifests[p].exists
    /\ y_out[1].out.direct_off # <<>>
    /\ y_out[1].out.direct_off[1] > 0
    /\ DirectOps(y_out[1].out, "result_put") # {}
    /\ y_out[1].out.how = "exit"


(***************************************************************************)
(* The mtime and ctime manifest_put records (SpecStore).                   *)
(***************************************************************************)

\* The file infos of the last result entry of the manifest, each with the
\* path it is about.
LastEntryInfos(mf) ==
    LET e == mf.results[Len(mf.results)]
    IN  {[path |-> mf.files[mf.file_infos[e.file_info_indexes[k] + 1].index + 1],
          fi |-> mf.file_infos[e.file_info_indexes[k] + 1]] :
         k \in 1..Len(e.file_info_indexes)}

\* The claim as stated: the sentinel whenever time_of_compilation minus the
\* file's mtime is at most one second, the file's times only when it is
\* older than that.
SentinelWithinOneSecond(mf, fs, toc) ==
    \A r \in LastEntryInfos(mf) :
       fs[r.path].exists
           => IF toc - fs[r.path].mtime <= 1
              THEN r.fi.mtime = -1 /\ r.fi.ctime = -1
              ELSE r.fi.mtime = fs[r.path].mtime /\ r.fi.ctime = fs[r.path].ctime

\* What the code does: the file's times when both are before
\* time_of_compilation, the sentinel otherwise and for a file that is gone.
SentinelUnlessOlder(mf, fs, toc) ==
    \A r \in LastEntryInfos(mf) :
       IF fs[r.path].exists /\ toc > fs[r.path].mtime /\ toc > fs[r.path].ctime
       THEN r.fi.mtime = fs[r.path].mtime /\ r.fi.ctime = fs[r.path].ctime
       ELSE r.fi.mtime = -1 /\ r.fi.ctime = -1

\* C32 as stated: every manifest_put records mtime = ctime = -1 for an
\* include file whose mtime is at most one second before
\* time_of_compilation, and the file's mtime and ctime for an older one.
Cex_C32_SentinelTimes ==
    [][s_puts' = s_puts + 1
          => SentinelWithinOneSecond(read_manifest(s_file'.bytes), s_fs, s_now)]_vars

\* C32, amended: every manifest_put records the include file's mtime and
\* ctime when both are before time_of_compilation (one second before is
\* enough), and mtime = ctime = -1 when either is at or after it or the file
\* cannot be examined.
Thm_C32_SentinelTimes ==
    [][s_puts' = s_puts + 1
          => SentinelUnlessOlder(read_manifest(s_file'.bytes), s_fs, s_now)]_vars

\* The first manifest_put, one second after a.h was last written, recorded
\* the mtime of a.h.
Wit_C32_SentinelTimes ==
    /\ s_puts = 1
    /\ s_changes = 0
    /\ s_file.exists
    /\ s_now - s_fs[PathA].mtime = 1
    /\ \E r \in LastEntryInfos(read_manifest(s_file.bytes)) :
          r.path = PathA /\ r.fi.mtime = s_fs[PathA].mtime


(***************************************************************************)
(* Include files that remember_include_file does not record (SpecDirect).  *)
(***************************************************************************)

\* The last invocation got as far as remember_include_file on a.h with
\* direct mode still on.
RememberCalled ==
    /\ y_out # <<>>
    /\ "no_direct_mode" \notin y_out[1].dev
    /\ DirectOps(y_out[1].out, "cpp") \cup DirectOps(y_out[1].out, "cc") # {}
    /\ \A k \in 1..Len(y_out[1].out.direct_off) : y_out[1].out.direct_off[k] > 0

\* a.h is a non-regular file, or its mtime or ctime is at or after
\* time_of_compilation and the sloppiness for it is not granted.
NotRecordable ==
    \/ "include_not_regular" \in y_out[1].dev
    \/ /\ y_fs[PathA].mtime >= QuietToc
       /\ "sloppy_include_mtime" \notin y_out[1].dev
    \/ /\ y_fs[PathA].ctime >= QuietToc
       /\ "sloppy_include_ctime" \notin y_out[1].dev

LastRunSawStdout ==
    /\ Len(u_out) >= 1
    /\ u_out[Len(u_out)].cc_runs = 1
    /\ "cc_stdout" \in u_dev
    /\ u_dev \cap {"pump", "tmp_stdout_lost"} = {}

\* C34 as stated: if the real compiler writes anything to stdout and is not
\* distcc-pump, ccache streams the captured stderr and exits with the
\* compiler's exit status, stores no result and does not run the compiler
\* again.
Cex_C34_CompilerStdout ==
    LastRunSawStdout
        => /\ u_out[Len(u_out)].how = "exit"
           /\ u_out[Len(u_out)].status = u_out[Len(u_out)].cc_status
           /\ u_cache = u_before

\* C34, amended: if the real compiler writes anything to stdout and is not
\* distcc-pump, ccache counts stdout, stores neither a result nor a manifest,
\* writes nothing of the captured stderr and runs the real compiler again in
\* its own place, on the original arguments.
Thm_C34_CompilerStdout ==
    LastRunSawStdout
        => /\ u_out[Len(u_out)].how = "exec"
           /\ u_out[Len(u_out)].argv = RunFallbackArgv
           /\ u_out[Len(u_out)].stats = <<"stdout">>
           /\ u_out[Len(u_out)].stderr = <<>>
           /\ u_cache = u_before

\* A compiler that failed and wrote to stdout: the run ended in the exec of
\* the compiler.
Wit_C34_CompilerStdout ==
    /\ LastRunSawStdout
    /\ u_dev = {"cc_stdout", "cc_fails"}
    /\ u_out[Len(u_out)].cc_status # 0
    /\ u_out[Len(u_out)].how = "exec"


(***************************************************************************)
(* SpecArgs: cc_process_args, one round of its argument loop per step.     *)
(* argv is expanded_args->argv, a_i the loop's i (argv[i] is a_argv[i+1]); *)
(* argv[argc] is the NULL that ends the array.  The compiler is gcc and    *)
(* a.c is the only regular file among the arguments.                       *)
(***************************************************************************)

MAX_ARCH_ARGS == 10

\* The number of options besides -c and a.c, and of -arch options.
MaxArgOpts == 1
MaxArch == 11

\* The files @file arguments name, with the arguments they hold: f names
\* g, p and q name each other.
AtFiles ==
    [f |-> <<"-DF", "@g">>, g |-> <<"-O1">>, p |-> <<"@q">>, q |-> <<"@p">>]

\* args_init_from_gcc_atfile(path): the arguments of the file, or NULL.
args_init_from_gcc_atfile(path) ==
    IF path \in DOMAIN AtFiles THEN [null |-> FALSE, argv |-> AtFiles[path]]
    ELSE [null |-> TRUE, argv |-> <<>>]

\* args_insert(dest, index, src, replace = true): src takes the place of
\* dest->argv[index].
args_insert(dest, index, src) ==
    SubSeq(dest, 1, index) \o src \o SubSeq(dest, index + 2, Len(dest))

\* The compiler option table, as far as the options here go.
compopt_too_hard(arg) == arg = "-save-temps"
compopt_affects_comp(arg) == arg = "-Xlinker"
compopt_takes_path(arg) == arg \in {"-I", "-include"}
compopt_takes_any_arg(arg) == arg \in {"-L", "-MF", "-MQ", "-MT", "-D", "-I", "-include", "-Xlinker"}

\* The options of an invocation, each the sequence of its tokens.
ArgOptions ==
    { <<"--ccache-skip", "-DS">>, <<"--ccache-skip", "-MD">>, <<"-x", "c">>,
      <<"-o", "b.o">>, <<"-MF", "b.d">>, <<"-MT", "b.o">>, <<"-MQ", "b.o">>, <<"--sysroot", "/sr">>, <<"-target", "t">>,
      <<"--serialize-diagnostics", "b.dia">>, <<"-I", "inc">>,
      <<"-Xlinker", "-s">>, <<"-D", "X">>,
      <<"-MD">>, <<"-O2">>, <<"-DY">>, <<"-fdirectives-only">>, <<"-E">>,
      <<"-save-temps">>, <<"-Wp,-MD,b.d">>, <<"-Wp,-undef">>,
      <<"@f">>, <<"@p">>, <<"@nosuch">> }

RECURSIVE ArgOptionLists(_)
ArgOptionLists(n) ==
    IF n = 0 THEN {<<>>}
    ELSE ArgOptionLists(n - 1)
            \cup {Append(l, o) : l \in {k \in ArgOptionLists(n - 1) : Len(k) = n - 1},
                                 o \in ArgOptions}

\* n -arch options.
Arches(n) == Flatten([k \in 1..n |-> <<"-arch", "x86_64">>])

\* The argument lists: some options and up to two -arch options, or -arch
\* options only; a.c last, or a.c first and the last token missing.
ArgTails ==
    {Flatten(opts) \o Arches(n) : opts \in ArgOptionLists(MaxArgOpts), n \in {0, 1, 2}}
        \cup {Arches(n) : n \in 0..MaxArch}

ArgLists ==
    {<<"gcc", "-c">> \o t \o <<"a.c">> : t \in ArgTails}
        \cup {<<"gcc", "-c", "a.c">> \o SubSeq(t, 1, Len(t) - 1) : t \in ArgTails \ {<<>>}}

\* The locals and globals of cc_process_args at the start; "" is NULL.
ArgsStart(argv, run_second_cpp) ==
    [common_args |-> <<argv[1]>>, cpp_args |-> <<>>, dep_args |-> <<>>,
     compiler_only_args |-> <<>>, arch_args |-> <<>>,
     found_c_opt |-> FALSE, found_directives_only |-> FALSE,
     explicit_language |-> "", input_file |-> "", output_obj |-> "",
     output_dep |-> "", generating_dependencies |-> FALSE,
     dependency_filename_specified |-> FALSE,
     dependency_target_specified |-> FALSE,
     run_second_cpp |-> run_second_cpp, direct_mode |-> TRUE,
     read_beyond |-> FALSE]

\* How a round of the loop ends: continue with i, goto out with result =
\* false and the statistic counted ("" for none), or x_strdup(NULL).
ArgContinue(argv, p, i) == [kind |-> "continue", argv |-> argv, p |-> p, i |-> i, stat |-> ""]
ArgFail(argv, p, i, stat) == [kind |-> "fail", argv |-> argv, p |-> p, i |-> i, stat |-> stat]

\* An option with a separate argument: "Missing argument" when it is the
\* last token, else the round goes on with the lists as given.
ArgWithNext(argv, p, i, q) ==
    IF i = Len(argv) - 1 THEN ArgFail(argv, p, i, "args")
    ELSE ArgContinue(argv, q, i + 1)

\* Handle -arch options: fail at arch_args_size == MAX_ARCH_ARGS - 1, else
\* ++i and x_strdup(argv[i]) into arch_args; argv[argc] is NULL.
arch_arg(argv, p, i) ==
    IF Len(p.arch_args) = MAX_ARCH_ARGS - 1
    THEN ArgFail(argv, p, i, "unsupported_option")
    ELSE IF i + 1 >= Len(argv)
    THEN [kind |-> "strdup_null", argv |-> argv, stat |-> "", i |-> i + 1,
          p |-> [p EXCEPT !.arch_args = Append(@, ""), !.read_beyond = TRUE,
                          !.run_second_cpp = @ \/ Len(p.arch_args) + 1 = 2]]
    ELSE ArgContinue(argv,
            [p EXCEPT !.arch_args = Append(@, argv[i + 2]),
                      !.run_second_cpp = @ \/ Len(p.arch_args) + 1 = 2],
            i + 1)

\* One round of the for loop on argv[i]; the result's i is the loop's i
\* before its i++.
args_loop_body(argv, i, p) ==
    LET arg == argv[i + 1]
        last == i = Len(argv) - 1
        next == IF last THEN "" ELSE argv[i + 2]
    IN  IF arg = "--ccache-skip"
        THEN IF i + 1 = Len(argv) THEN ArgFail(argv, p, i + 1, "")
             ELSE ArgContinue(argv, [p EXCEPT !.common_args = Append(@, next)], i + 1)
        ELSE IF arg = "-E" THEN ArgFail(argv, p, i, "preprocessing")
        ELSE IF str_startswith(arg, "@")
        THEN LET file_args == args_init_from_gcc_atfile(SubSeq(arg, 2, Len(arg)))
             IN  IF file_args.null THEN ArgFail(argv, p, i, "args")
                 ELSE ArgContinue(args_insert(argv, i, file_args.argv), p, i - 1)
        ELSE IF compopt_too_hard(arg) \/ str_startswith(arg, "-fdump-")
        THEN ArgFail(argv, p, i, "unsupported_option")
        ELSE IF str_startswith(arg, "-Xarch_") THEN ArgFail(argv, p, i, "unsupported_option")
        ELSE IF arg = "-arch" THEN arch_arg(argv, p, i)
        ELSE IF compopt_affects_comp(arg)
        THEN IF compopt_takes_any_arg(arg)
             THEN ArgWithNext(argv, p, i,
                              [p EXCEPT !.compiler_only_args = @ \o <<arg, next>>])
             ELSE ArgContinue(argv, [p EXCEPT !.compiler_only_args = Append(@, arg)], i)
        ELSE IF arg = "-c" THEN ArgContinue(argv, [p EXCEPT !.found_c_opt = TRUE], i)
        ELSE IF arg = "-x"
        THEN ArgWithNext(argv, p, i,
                         IF p.input_file = "" THEN [p EXCEPT !.explicit_language = next]
                         ELSE p)
        ELSE IF arg = "-o" THEN ArgWithNext(argv, p, i, [p EXCEPT !.output_obj = next])
        ELSE IF arg \in {"-MD", "-MMD"}
        THEN ArgContinue(argv, [p EXCEPT !.generating_dependencies = TRUE,
                                         !.dep_args = Append(@, arg)], i)
        ELSE IF arg = "-MF"
        THEN ArgWithNext(argv, [p EXCEPT !.dependency_filename_specified = TRUE], i,
                         [p EXCEPT !.dependency_filename_specified = TRUE,
                                   !.output_dep = next,
                                   !.dep_args = @ \o <<"-MF", next>>])
        ELSE IF arg \in {"-MQ", "-MT"}
        THEN ArgWithNext(argv, [p EXCEPT !.dependency_target_specified = TRUE], i,
                         [p EXCEPT !.dependency_target_specified = TRUE,
                                   !.dep_args = @ \o <<arg, next>>])
        ELSE IF arg \in {"--sysroot", "-target"}
        THEN ArgWithNext(argv, p, i, [p EXCEPT !.common_args = @ \o <<arg, next>>])
        ELSE IF str_startswith(arg, "-Wp,-MD,")
                /\ ~strstr(SubSeq(arg, Len("-Wp,-MD,") + 1, Len(arg)), ",")
        THEN ArgContinue(argv, [p EXCEPT !.generating_dependencies = TRUE,
                                         !.dependency_filename_specified = TRUE,
                                         !.output_dep = SubSeq(arg, Len("-Wp,-MD,") + 1, Len(arg)),
                                         !.dep_args = Append(@, arg)], i)
        ELSE IF str_startswith(arg, "-Wp,")
        THEN ArgContinue(argv, [p EXCEPT !.direct_mode = FALSE,
                                         !.cpp_args = Append(@, arg)], i)
        ELSE IF arg = "--serialize-diagnostics" THEN ArgWithNext(argv, p, i, p)
        ELSE IF arg = "-fdirectives-only"
        THEN ArgContinue(argv, [p EXCEPT !.found_directives_only = TRUE], i)
        ELSE IF compopt_takes_path(arg)
        THEN ArgWithNext(argv, p, i, [p EXCEPT !.cpp_args = @ \o <<arg, next>>])
        ELSE IF compopt_takes_any_arg(arg)
        THEN ArgWithNext(argv, p, i,
                         IF compopt_short_affects_cpp(arg)
                         THEN [p EXCEPT !.cpp_args = @ \o <<arg, next>>]
                         ELSE [p EXCEPT !.common_args = @ \o <<arg, next>>])
        ELSE IF str_startswith(arg, "-")
        THEN ArgContinue(argv,
                         IF compopt_short_affects_cpp(arg)
                         THEN [p EXCEPT !.cpp_args = Append(@, arg)]
                         ELSE [p EXCEPT !.common_args = Append(@, arg)], i)
        ELSE IF arg # "a.c"
        THEN ArgContinue(argv, [p EXCEPT !.common_args = Append(@, arg)], i)
        ELSE IF p.input_file # "" THEN ArgFail(argv, p, i, "multiple")
        ELSE ArgContinue(argv, [p EXCEPT !.input_file = arg], i)

\* The assembly that hands the dependency options to the compiler too.
cc_process_args_assembled_with_deps(p) ==
    [compiler_args |->
        p.common_args \o p.compiler_only_args \o p.cpp_args \o p.dep_args
            \o (IF p.found_c_opt THEN <<"-c">> ELSE <<>>)
            \o Flatten([k \in 1..Len(p.arch_args) |-> <<"-arch", p.arch_args[k]>>]),
     preprocessor_args |-> p.common_args \o p.cpp_args \o p.dep_args]

\* The end of cc_process_args: compiler_args from common_args,
\* compiler_only_args, cpp_args or what stands in for them, -c and the
\* -arch options; preprocessor_args from common_args, cpp_args and dep_args.
\* p_language_for_language("c") is "cpp-output".
cc_process_args_assembled(p) ==
    [compiler_args |->
        p.common_args \o p.compiler_only_args
            \o (IF p.run_second_cpp THEN p.cpp_args
                ELSE IF p.found_directives_only
                THEN p.cpp_args \o <<"-fpreprocessed", "-fdirectives-only">>
                ELSE IF p.explicit_language # "" THEN <<"-x", "cpp-output">>
                ELSE <<>>)
            \o (IF p.found_c_opt THEN <<"-c">> ELSE <<>>)
            \o Flatten([k \in 1..Len(p.arch_args) |-> <<"-arch", p.arch_args[k]>>]),
     preprocessor_args |->
        p.common_args
            \o (IF ~p.run_second_cpp /\ p.found_directives_only
                THEN Append(p.cpp_args, "-fdirectives-only") ELSE p.cpp_args)
            \o p.dep_args]

\* cc_process_args after the loop: the checks of what was found, the
\* defaults, and the two argument lists.  The p of the result holds the
\* lists as they are when the assembly starts.
args_loop_exit(p) ==
    LET output_obj == IF p.output_obj = "" THEN "a.o" ELSE p.output_obj
        langed == IF p.explicit_language # ""
                  THEN [p EXCEPT !.cpp_args = @ \o <<"-x", p.explicit_language>>]
                  ELSE p
        named == IF p.generating_dependencies /\ ~p.dependency_filename_specified
                 THEN [langed EXCEPT
                          !.dep_args = @ \o <<"-MF", remove_extension(output_obj) \o ".d">>,
                          !.output_dep = remove_extension(output_obj) \o ".d"]
                 ELSE langed
        targeted == IF named.generating_dependencies
                       /\ ~named.dependency_target_specified
                       /\ get_extension(named.output_dep) # ".o"
                    THEN [named EXCEPT !.dep_args = @ \o <<"-MQ", output_obj>>]
                    ELSE named
        failure(stat) == [result |-> FALSE, stat |-> stat, p |-> p,
                          compiler_args |-> <<>>, preprocessor_args |-> <<>>]
    IN  IF p.input_file = "" THEN failure("no_input")
        ELSE IF p.explicit_language \notin {"", "c"} THEN failure("sourcelang")
        ELSE IF ~p.found_c_opt THEN failure("link")
        ELSE IF output_obj = "-" THEN failure("output_to_stdout")
        ELSE [result |-> TRUE, stat |-> "", p |-> targeted,
              compiler_args |-> cc_process_args_assembled(targeted).compiler_args,
              preprocessor_args |-> cc_process_args_assembled(targeted).preprocessor_args]

ArgsInit ==
    /\ a_argv \in ArgLists
    /\ a_i = 1
    /\ \E run_second_cpp \in BOOLEAN : a_p = ArgsStart(a_argv, run_second_cpp)
    /\ a_pc = "loop"
    /\ a_out = <<>>
    /\ ArgsRestIdle

\* for (int i = 1; i < argc; i++): one round, with the i++ that follows a
\* continue; goto out ends the function with result = false.  What
\* x_strdup(NULL) does is undefined: the process dies or goes on with some
\* string for the architecture.
ArgsIteration ==
    /\ a_pc = "loop"
    /\ a_i < Len(a_argv)
    /\ \E r \in {args_loop_body(a_argv, a_i, a_p)} :
          \/ /\ r.kind = "continue"
             /\ a_argv' = r.argv /\ a_p' = r.p /\ a_i' = r.i + 1
             /\ UNCHANGED <<a_pc, a_out>>
          \/ /\ r.kind = "fail"
             /\ a_pc' = "done"
             /\ a_out' = <<[result |-> FALSE, stat |-> r.stat, p |-> r.p,
                            compiler_args |-> <<>>, preprocessor_args |-> <<>>]>>
             /\ a_i' = r.i
             /\ UNCHANGED <<a_argv, a_p>>
          \/ /\ r.kind = "strdup_null"
             /\ a_argv' = r.argv /\ a_p' = r.p /\ a_i' = r.i + 1
             /\ UNCHANGED <<a_pc, a_out>>
          \/ /\ r.kind = "strdup_null"
             /\ a_pc' = "crashed"
             /\ a_i' = r.i
             /\ a_p' = [a_p EXCEPT !.read_beyond = TRUE]
             /\ UNCHANGED <<a_argv, a_out>>
    /\ UNCHANGED argsRest

\* The loop is over: the rest of cc_process_args.
ArgsFinish ==
    /\ a_pc = "loop"
    /\ a_i >= Len(a_argv)
    /\ a_out' = <<args_loop_exit(a_p)>>
    /\ a_pc' = "done"
    /\ UNCHANGED <<a_argv, a_i, a_p>>
    /\ UNCHANGED argsRest

ArgsNext == ArgsIteration \/ ArgsFinish

SpecArgs == ArgsInit /\ [][ArgsNext]_vars

\* The loop's rounds and the end of the function are taken as long as they
\* can be.
SpecArgsLive == SpecArgs /\ WF_vars(ArgsNext)

\* The number of -arch tokens of an argument list.
ArchCount(argv) == Len(SelectSeq(argv, LAMBDA a : a = "-arch"))

\* cc_process_args is over and has returned.
ArgsReturned == a_pc = "done" /\ Len(a_out) = 1

\* C35 (as the specification states it): up to 10 -arch options are
\* accepted; argument processing fails as an unsupported option, no too hard
\* option being there, only when more than 10 -arch options are given, and
\* the arch list never holds more than 10 entries.  The code fails at the
\* tenth -arch option.
Cex_C35_TenArchOptions ==
    /\ Len(a_p.arch_args) <= MAX_ARCH_ARGS
    /\ (/\ ArgsReturned
        /\ a_out[1].stat = "unsupported_option"
        /\ \A k \in 1..Len(a_argv) : ~compopt_too_hard(a_argv[k]))
       => ArchCount(a_argv) > MAX_ARCH_ARGS

\* What compiler_args holds in place of cpp_args.
SecondPassArgs(p) ==
    IF p.run_second_cpp THEN p.cpp_args
    ELSE IF p.found_directives_only
    THEN p.cpp_args \o <<"-fpreprocessed", "-fdirectives-only">>
    ELSE IF p.explicit_language # "" THEN <<"-x", "cpp-output">>
    ELSE <<>>

RECURSIVE ArchPairs(_)
ArchPairs(arch_args) ==
    IF arch_args = <<>> THEN <<>>
    ELSE <<"-arch", Head(arch_args)>> \o ArchPairs(Tail(arch_args))

Tokens(args) == {args[k] : k \in 1..Len(args)}

Cex_C38_Terminates == <>(a_pc # "loop")

\* The options of the argument lists that take the next token as their
\* argument.
NextTokenOptions ==
    {"--ccache-skip", "-arch", "-x", "-o", "-MF", "-MT", "-MQ", "--sysroot", "-target",
     "--serialize-diagnostics", "-I", "-Xlinker", "-D"}

\* C39 (as the specification states it): when an option that takes the next
\* token as its argument is the last token, cc_process_args fails with a
\* classified error, and it never reads the argument list at or beyond
\* index argc.  -arch as the last token reads argv[argc]; --ccache-skip as
\* the last token fails without a classification.
Cex_C39_LastTokenOption ==
    /\ ~a_p.read_beyond
    /\ (a_pc # "loop" /\ a_argv[Len(a_argv)] \in NextTokenOptions) =>
           ArgsReturned /\ ~a_out[1].result /\ a_out[1].stat # ""


(***************************************************************************)
(* SpecSweep: clean_up_internal_tempdir in concurrent invocations          *)
(***************************************************************************)

\* st.st_mtime + 3600: the age, in seconds, from which on a file is swept.
SWEEP_AGE == 3600

\* The number of times the clock advances.
MaxSweepTicks == 3

SweepProcs == {1, 2}

\* A file that is not there.
NoFile == 0 - 1

\* The temporary file of an invocation, and one that an earlier invocation
\* left behind.
SweepFiles == {"stale", "tmp1", "tmp2"}
SweepTmpOf(i) == IF i = 1 THEN "tmp1" ELSE "tmp2"

SweepExisting(tmp) == {f \in SweepFiles : tmp[f] # NoFile}

\* The first test of clean_up_internal_tempdir, which sweeps whatever the
\* age of the cache directory.
sweep_not_needed_never(mtime, now) == FALSE

\* clean_up_internal_tempdir: st.st_mtime + 3600 >= now, no cleanup needed.
sweep_not_needed(mtime, now) == mtime + SWEEP_AGE >= now

\* clean_up_internal_tempdir: x_lstat(path, &st) == 0 && st.st_mtime + 3600
\* < now, the file is removed.
sweep_removes(tmp, f, now) == tmp[f] # NoFile /\ tmp[f] + SWEEP_AGE < now

SweepInit ==
    /\ e_now = 0
    /\ e_dir = 0
    /\ \E stale \in {NoFile, 0} :
          e_tmp = [f \in SweepFiles |-> IF f = "stale" THEN stale ELSE NoFile]
    /\ e_inv = [i \in SweepProcs |->
                   [pc |-> "start", now |-> 0, seen |-> 0, todo |-> {}, visited |-> {},
                    swept |-> FALSE, refreshed |-> 0]]
    /\ e_log = [ticks |-> 0, removed |-> {}, sweeps |-> {}]
    /\ SweepRestIdle

\* Time passes: a second or an hour.
SweepTick ==
    /\ e_log.ticks < MaxSweepTicks
    /\ \E d \in {1, SWEEP_AGE} : e_now' = e_now + d
    /\ e_log' = [e_log EXCEPT !.ticks = @ + 1]
    /\ UNCHANGED <<e_dir, e_tmp, e_inv>>
    /\ UNCHANGED sweepRest

\* clean_up_internal_tempdir: now = time(NULL), x_stat of the cache
\* directory and the test of its mtime.
SweepStat(i) ==
    /\ e_inv[i].pc = "start"
    /\ e_inv' = [e_inv EXCEPT ![i].now = e_now, ![i].seen = e_dir,
                              ![i].pc = IF sweep_not_needed(e_dir, e_now)
                                        THEN "running" ELSE "update_mtime"]
    /\ UNCHANGED <<e_now, e_dir, e_tmp, e_log>>
    /\ UNCHANGED sweepRest

\* update_mtime of the cache directory, then opendir(temp_dir()).
SweepUpdateMtime(i) ==
    /\ e_inv[i].pc = "update_mtime"
    /\ e_dir' = e_now
    /\ e_inv' = [e_inv EXCEPT ![i].pc = "readdir", ![i].refreshed = e_now,
                              ![i].todo = SweepExisting(e_tmp), ![i].visited = {}]
    /\ UNCHANGED <<e_now, e_tmp, e_log>>
    /\ UNCHANGED sweepRest

\* readdir gives an entry: one that was there at opendir or one that has
\* come since; it is removed when it is old.
SweepEntry(i) ==
    /\ e_inv[i].pc = "readdir"
    /\ \E f \in (e_inv[i].todo \cup SweepExisting(e_tmp)) \ e_inv[i].visited :
          /\ e_inv' = [e_inv EXCEPT ![i].visited = @ \cup {f}]
          /\ IF sweep_removes(e_tmp, f, e_inv[i].now)
             THEN /\ e_tmp' = [e_tmp EXCEPT ![f] = NoFile]
                  /\ e_log' = [e_log EXCEPT !.removed = @ \cup
                                   {[file |-> f, mtime |-> e_tmp[f], now |-> e_inv[i].now,
                                     at |-> e_now, by |-> i,
                                     in_use |-> \E j \in SweepProcs :
                                                   f = SweepTmpOf(j) /\ e_inv[j].pc = "running",
                                     started |-> IF f = "stale" THEN 0
                                                 ELSE IF f = "tmp1" THEN e_inv[1].now
                                                 ELSE e_inv[2].now]}]
             ELSE UNCHANGED <<e_tmp, e_log>>
    /\ UNCHANGED <<e_now, e_dir>>
    /\ UNCHANGED sweepRest

\* readdir gives NULL: closedir, and the invocation goes on.
SweepClosedir(i) ==
    /\ e_inv[i].pc = "readdir"
    /\ e_inv[i].todo \subseteq e_inv[i].visited
    /\ e_inv' = [e_inv EXCEPT ![i].pc = "running", ![i].swept = TRUE]
    /\ e_log' = [e_log EXCEPT !.sweeps = @ \cup
                     {[by |-> i, seen |-> e_inv[i].seen, now |-> e_inv[i].now,
                       refreshed |-> e_inv[i].refreshed,
                       left |-> {f \in SweepExisting(e_tmp) :
                                    e_tmp[f] + SWEEP_AGE < e_inv[i].now}]}]
    /\ UNCHANGED <<e_now, e_dir, e_tmp>>
    /\ UNCHANGED sweepRest

\* The invocation creates its temporary file, or writes to it.
SweepWriteTmp(i) ==
    /\ e_inv[i].pc = "running"
    /\ e_tmp[SweepTmpOf(i)] # e_now
    /\ e_tmp' = [e_tmp EXCEPT ![SweepTmpOf(i)] = e_now]
    /\ UNCHANGED <<e_now, e_dir, e_inv, e_log>>
    /\ UNCHANGED sweepRest

\* The invocation ends: its temporary file is removed, or is left behind
\* when the invocation is killed outright.
SweepEnd(i) ==
    /\ e_inv[i].pc = "running"
    /\ e_inv' = [e_inv EXCEPT ![i].pc = "ended"]
    /\ \/ e_tmp' = [e_tmp EXCEPT ![SweepTmpOf(i)] = NoFile]
       \/ UNCHANGED e_tmp
    /\ UNCHANGED <<e_now, e_dir, e_log>>
    /\ UNCHANGED sweepRest

SweepNext ==
    \/ SweepTick
    \/ \E i \in SweepProcs :
          \/ SweepStat(i) \/ SweepUpdateMtime(i) \/ SweepEntry(i)
          \/ SweepClosedir(i) \/ SweepWriteTmp(i) \/ SweepEnd(i)

SpecSweep == SweepInit /\ [][SweepNext]_vars

\* The invocations that are sweeping or have swept.
SweepSweeping(i) == e_inv[i].pc \in {"update_mtime", "readdir"} \/ e_inv[i].swept

\* C37 (as the specification states it): the temporary directory is swept
\* only when the cache directory's mtime is more than an hour old; only
\* files older than an hour are removed, so none that is in use by an
\* invocation started less than an hour before; and once an invocation has
\* swept, no other invocation sweeps within the hour.  Two invocations that
\* both read the mtime before either refreshes it both sweep.
Cex_C37_TempSweep ==
    /\ \A i \in SweepProcs : SweepSweeping(i) => e_inv[i].seen + SWEEP_AGE < e_inv[i].now
    /\ \A r \in e_log.removed : r.mtime + SWEEP_AGE < r.at
    /\ \A r \in e_log.removed : r.in_use => r.started + SWEEP_AGE < r.at
    /\ \A s \in e_log.sweeps : s.left = {}
    /\ \A i, j \in SweepProcs :
          (i # j /\ SweepSweeping(i) /\ SweepSweeping(j)) =>
              \/ e_inv[i].now > e_inv[j].now + SWEEP_AGE
              \/ e_inv[j].now > e_inv[i].now + SWEEP_AGE

\* C37 (amended): the temporary directory is swept only when the cache
\* directory's mtime is more than an hour old; the sweep removes the files
\* of tmp/ whose mtime is more than an hour old and no younger one, so none
\* that is in use by an invocation started less than an hour before; and it
\* sets the cache directory's mtime first, so that an invocation which reads
\* the mtime after that, and within the hour, does not sweep.
Thm_C37_TempSweep ==
    /\ \A i \in SweepProcs : SweepSweeping(i) => e_inv[i].seen + SWEEP_AGE < e_inv[i].now
    /\ \A r \in e_log.removed : r.mtime + SWEEP_AGE < r.now /\ r.now <= r.at
    /\ \A r \in e_log.removed : r.in_use => r.started + SWEEP_AGE < r.at
    /\ \A s \in e_log.sweeps : s.left = {}
    /\ \A i, j \in SweepProcs :
          (/\ i # j
           /\ e_inv[i].pc \in {"readdir", "running", "ended"} /\ SweepSweeping(i)
           /\ e_inv[j].pc # "start"
           /\ e_inv[j].seen >= e_inv[i].refreshed
           /\ e_inv[j].now <= e_inv[i].refreshed + SWEEP_AGE)
          => ~SweepSweeping(j)

\* An invocation has swept and removed the file left behind, and the other
\* one, started within the hour after the refresh, has not swept.
Wit_C37_TempSweep ==
    \E i, j \in SweepProcs :
        /\ i # j
        /\ e_inv[i].swept /\ e_inv[j].pc = "running" /\ ~e_inv[j].swept
        /\ e_inv[j].now > e_inv[i].refreshed
        /\ \E r \in e_log.removed : r.file = "stale" /\ r.by = i


(***************************************************************************)
(* SpecPending: the list of pending temporary files under a fatal signal   *)
(***************************************************************************)

\* The number of temporary files an invocation registers.
MaxPending == 3

\* The value of memory that x_malloc returned and nothing was stored to.
Uninitialized == 0 - 1

\* struct pending_tmp_file* NULL; the nodes are 1, 2, ...
NullNode == 0

PendingNodes == 1..MaxPending

\* A block_signals that leaves the signal mask as it is.
block_signals_skipped(mask) == mask

\* block_signals: sigprocmask(SIG_BLOCK, &fatal_signal_set, NULL).
block_signals(mask) == TRUE

\* unblock_signals: sigprocmask(SIG_SETMASK, &empty, NULL).
unblock_signals(mask) == FALSE

\* The nodes from p on, as do_clean_up_pending_tmp_files walks them; a node
\* that is reached twice, or whose next was never stored, ends the walk.
RECURSIVE PendingWalk(_, _, _)
PendingWalk(heap, p, seen) ==
    IF p = NullNode \/ p = Uninitialized \/ p \in seen THEN <<>>
    ELSE <<p>> \o PendingWalk(heap, heap[p].next, seen \cup {p})

\* The list is well formed: every node from the head on has its path and
\* its next stored, and the walk ends at NULL.
PendingWellFormed(heap, head) ==
    LET walk == PendingWalk(heap, head, {})
    IN  /\ head # Uninitialized
        /\ \A k \in 1..Len(walk) :
              /\ heap[walk[k]].path # Uninitialized
              /\ heap[walk[k]].next # Uninitialized
              /\ heap[walk[k]].next \notin {walk[j] : j \in 1..k}

PendingInit ==
    /\ n_main = [pc |-> "main", k |-> 0, mask |-> FALSE]
    /\ n_list = [heap |-> [e \in PendingNodes |->
                              [path |-> Uninitialized, next |-> Uninitialized]],
                 head |-> NullNode, registered |-> {}]
    /\ n_files = {}
    /\ n_sig = [state |-> "none", deferred |-> FALSE, p |-> NullNode, unlinked |-> {},
                at_delivery |-> {}, interrupted |-> "", half_linked |-> FALSE]
    /\ PendingRestIdle

\* The invocation runs while the handler does not.
PendingAt(pc) == n_main.pc = pc /\ n_sig.state \in {"none", "pending"}

\* create_tmp_fd: the next temporary file is there.
PendingCreate ==
    /\ PendingAt("main")
    /\ n_main.k < MaxPending
    /\ n_files' = n_files \cup {n_main.k + 1}
    /\ n_main' = [n_main EXCEPT !.pc = "created"]
    /\ UNCHANGED <<n_list, n_sig>>
    /\ UNCHANGED pendingRest

\* add_pending_tmp_file: block_signals().
PendingBlock ==
    /\ PendingAt("created")
    /\ n_main' = [n_main EXCEPT !.pc = "blocked", !.mask = block_signals(n_main.mask)]
    /\ UNCHANGED <<n_list, n_files, n_sig>>
    /\ UNCHANGED pendingRest

\* add_pending_tmp_file: e = x_malloc(sizeof(pending_tmp_file)); the node is
\* there, with nothing in it.
PendingMalloc ==
    /\ PendingAt("blocked")
    /\ n_main' = [n_main EXCEPT !.pc = "allocated"]
    /\ UNCHANGED <<n_list, n_files, n_sig>>
    /\ UNCHANGED pendingRest

\* add_pending_tmp_file: e->path = x_strdup(path).
PendingSetPath ==
    /\ PendingAt("allocated")
    /\ n_list' = [n_list EXCEPT !.heap[n_main.k + 1].path = n_main.k + 1]
    /\ n_main' = [n_main EXCEPT !.pc = "path_set"]
    /\ UNCHANGED <<n_files, n_sig>>
    /\ UNCHANGED pendingRest

\* add_pending_tmp_file: e->next = pending_tmp_files.
PendingSetNext ==
    /\ PendingAt("path_set")
    /\ n_list' = [n_list EXCEPT !.heap[n_main.k + 1].next = n_list.head]
    /\ n_main' = [n_main EXCEPT !.pc = "next_set"]
    /\ UNCHANGED <<n_files, n_sig>>
    /\ UNCHANGED pendingRest

\* add_pending_tmp_file: pending_tmp_files = e; the path is registered.
PendingSetHead ==
    /\ PendingAt("next_set")
    /\ n_list' = [n_list EXCEPT !.head = n_main.k + 1,
                                !.registered = @ \cup {n_main.k + 1}]
    /\ n_main' = [n_main EXCEPT !.pc = "linked"]
    /\ UNCHANGED <<n_files, n_sig>>
    /\ UNCHANGED pendingRest

\* add_pending_tmp_file: unblock_signals().
PendingUnblock ==
    /\ PendingAt("linked")
    /\ n_main' = [n_main EXCEPT !.pc = "main", !.k = @ + 1,
                                !.mask = unblock_signals(n_main.mask)]
    /\ UNCHANGED <<n_list, n_files, n_sig>>
    /\ UNCHANGED pendingRest

\* clean_up_pending_tmp_files at exit: block_signals().
PendingExitBlock ==
    /\ PendingAt("main")
    /\ n_main' = [n_main EXCEPT !.pc = "exit_blocked", !.mask = block_signals(n_main.mask)]
    /\ UNCHANGED <<n_list, n_files, n_sig>>
    /\ UNCHANGED pendingRest

\* clean_up_pending_tmp_files: do_clean_up_pending_tmp_files().
PendingExitCleanUp ==
    /\ PendingAt("exit_blocked")
    /\ n_files' = n_files \ {n_list.heap[e].path :
                                e \in {PendingWalk(n_list.heap, n_list.head, {})[k] :
                                          k \in 1..Len(PendingWalk(n_list.heap, n_list.head, {}))}}
    /\ n_main' = [n_main EXCEPT !.pc = "exit_cleaned"]
    /\ UNCHANGED <<n_list, n_sig>>
    /\ UNCHANGED pendingRest

\* clean_up_pending_tmp_files: unblock_signals(); the process is about to
\* end.
PendingExitUnblock ==
    /\ PendingAt("exit_cleaned")
    /\ n_main' = [n_main EXCEPT !.pc = "exited", !.mask = unblock_signals(n_main.mask)]
    /\ UNCHANGED <<n_list, n_files, n_sig>>
    /\ UNCHANGED pendingRest

\* A fatal signal is sent to the process; it stays pending while the fatal
\* signals are blocked.
PendingSignal ==
    /\ n_sig.state = "none"
    /\ n_main.pc # "exited"
    /\ n_sig' = [n_sig EXCEPT !.state = "pending", !.deferred = n_main.mask]
    /\ UNCHANGED <<n_main, n_list, n_files>>
    /\ UNCHANGED pendingRest

\* The signal is delivered: signal_handler starts, and
\* do_clean_up_pending_tmp_files reads pending_tmp_files.
PendingDeliver ==
    /\ n_sig.state = "pending"
    /\ ~n_main.mask
    /\ n_sig' = [n_sig EXCEPT !.state = "handling", !.p = n_list.head,
                              !.at_delivery = n_list.registered,
                              !.interrupted = n_main.pc]
    /\ UNCHANGED <<n_main, n_list, n_files>>
    /\ UNCHANGED pendingRest

\* do_clean_up_pending_tmp_files: unlink(p->path); p = p->next.  What is
\* read from a node that was never stored to is anything.
PendingHandlerVisit ==
    /\ n_sig.state = "handling"
    /\ n_sig.p # NullNode
    /\ LET e == n_list.heap[n_sig.p]
       IN  /\ n_files' = IF e.path = Uninitialized THEN n_files ELSE n_files \ {e.path}
           /\ \E next \in IF e.next = Uninitialized
                          THEN PendingNodes \cup {NullNode} ELSE {e.next} :
                 n_sig' = [n_sig EXCEPT
                              !.p = next,
                              !.unlinked = IF e.path = Uninitialized THEN @
                                           ELSE @ \cup {e.path},
                              !.half_linked = @ \/ e.path = Uninitialized
                                                \/ e.next = Uninitialized]
    /\ UNCHANGED <<n_main, n_list>>
    /\ UNCHANGED pendingRest

\* do_clean_up_pending_tmp_files is at the end of the list; the handler
\* sends the signal again and the process ends.
PendingHandlerEnd ==
    /\ n_sig.state = "handling"
    /\ n_sig.p = NullNode
    /\ n_sig' = [n_sig EXCEPT !.state = "killed"]
    /\ UNCHANGED <<n_main, n_list, n_files>>
    /\ UNCHANGED pendingRest

PendingNext ==
    \/ PendingCreate \/ PendingBlock \/ PendingMalloc \/ PendingSetPath
    \/ PendingSetNext \/ PendingSetHead \/ PendingUnblock
    \/ PendingExitBlock \/ PendingExitCleanUp \/ PendingExitUnblock
    \/ PendingSignal \/ PendingDeliver \/ PendingHandlerVisit \/ PendingHandlerEnd

SpecPending == PendingInit /\ [][PendingNext]_vars

\* The positions of add_pending_tmp_file between block_signals and
\* unblock_signals.
PendingInAdd == n_main.pc \in {"blocked", "allocated", "path_set", "next_set", "linked"}

\* C40: pending_tmp_files and its nodes are stored to only while the fatal
\* signals are blocked, so that the handler never starts in the middle of
\* add_pending_tmp_file; the list the handler walks is well formed, the
\* handler visits no node with a field not yet stored, and when it is done
\* it has unlinked every path registered before the signal was delivered.
Thm_C40_PendingList ==
    /\ PendingInAdd => n_main.mask
    /\ n_sig.state \in {"handling", "killed"} =>
          /\ n_sig.interrupted \notin {"blocked", "allocated", "path_set", "next_set", "linked"}
          /\ PendingWellFormed(n_list.heap, n_list.head)
          /\ ~n_sig.half_linked
    /\ n_sig.state = "killed" =>
          /\ n_sig.at_delivery \subseteq n_sig.unlinked
          /\ n_files \cap n_sig.at_delivery = {}

\* The signal was sent while add_pending_tmp_file had the signals blocked,
\* and the handler has unlinked every registered file.
Wit_C40_PendingList ==
    /\ n_sig.state = "killed"
    /\ n_sig.deferred
    /\ n_sig.interrupted = "main"
    /\ Cardinality(n_sig.unlinked) >= 2

====
